---- MODULE Spec2Model ----
(***************************************************************************)
(* A model of the x86rs simulator (crate `simulator`): the register file,  *)
(* the physical bus and MMU, the instruction decoder, the executor's       *)
(* step_instruction and the interrupt engine, with the timer thread that   *)
(* deposits IRQ vectors into the shared IRQ byte.                          *)
(*                                                                         *)
(* A u64 is a tuple of 8 bytes, least significant first (TLC's integers    *)
(* are 32 bits wide); u16 and u32 values are 2- and 4-byte tuples.         *)
(***************************************************************************)
EXTENDS Integers, Sequences, FiniteSets, TLC

VARIABLES
    registers,               \* Registers::primary_registers, [0..15 -> u64]
    cr2,                     \* Registers::cr2
    cpl,                     \* ProcessorState::cpl, an i8 (-128..127)
    interupt_stack_pointer,  \* ProcessorState::interupt_stack_pointer
    idt,                     \* ProcessorState::idt
    instruction_pointer,     \* ProcessorState::instruction_pointer
    rflags,                  \* ProcessorState::rflags
    paging_table_address,    \* MemoryManagementUnit::paging_table_address
    ranges,                  \* PhysicalMemoryManagementUnit::ranges, <<begin, end>> -> backend
    IRQ,                     \* the static AtomicU8 IRQ
    pc,                      \* position of the executor thread inside step_instruction
    irq,                     \* step_instruction's local `irq` (the value loaded)
    status,                  \* "running", or how the process ended
    overflow_checks,         \* whether the build panics on arithmetic overflow
    ports,                   \* PortDevices::ports, port -> <<device, its port>>
    timer,                   \* the Timer device and the threads run_timer spawned
    console,                 \* the bytes written to the UTF8Console
    last                     \* history: what the last operation did

vars == <<registers, cr2, cpl, interupt_stack_pointer, idt, instruction_pointer,
          rflags, paging_table_address, ranges, IRQ, pc, irq, status,
          overflow_checks, ports, timer, console, last>>

----------------------------------------------------------------------------
(* Bytes and words *)

Bit(x, i) == (x \div (2^i)) % 2

\* x ^ y on bytes
XorByte(x, y) ==
    ((Bit(x,0) + Bit(y,0)) % 2) + 2 * ((Bit(x,1) + Bit(y,1)) % 2)
    + 4 * ((Bit(x,2) + Bit(y,2)) % 2) + 8 * ((Bit(x,3) + Bit(y,3)) % 2)
    + 16 * ((Bit(x,4) + Bit(y,4)) % 2) + 32 * ((Bit(x,5) + Bit(y,5)) % 2)
    + 64 * ((Bit(x,6) + Bit(y,6)) % 2) + 128 * ((Bit(x,7) + Bit(y,7)) % 2)

\* x & y on bytes
AndByte(x, y) ==
    (Bit(x,0) * Bit(y,0)) + 2 * (Bit(x,1) * Bit(y,1))
    + 4 * (Bit(x,2) * Bit(y,2)) + 8 * (Bit(x,3) * Bit(y,3))
    + 16 * (Bit(x,4) * Bit(y,4)) + 32 * (Bit(x,5) * Bit(y,5))
    + 64 * (Bit(x,6) * Bit(y,6)) + 128 * (Bit(x,7) * Bit(y,7))

\* x | y on bytes
OrByte(x, y) == x + y - AndByte(x, y)

\* The 8-byte tuple of the function f on 1..8
Tup8(f) == <<f[1], f[2], f[3], f[4], f[5], f[6], f[7], f[8]>>

XorW(a, b) == Tup8([i \in 1..8 |-> XorByte(a[i], b[i])])
AndW(a, b) == Tup8([i \in 1..8 |-> AndByte(a[i], b[i])])
OrW(a, b)  == Tup8([i \in 1..8 |-> OrByte(a[i], b[i])])

Zero64 == <<0, 0, 0, 0, 0, 0, 0, 0>>

\* `value as u64` for a u8, a u16 (2 bytes) and a u32 (4 bytes)
U8AsU64(b)  == <<b, 0, 0, 0, 0, 0, 0, 0>>
U16AsU64(w) == <<w[1], w[2], 0, 0, 0, 0, 0, 0>>
U32AsU64(d) == <<d[1], d[2], d[3], d[4], 0, 0, 0, 0>>

\* `value as u8`, `as u16`, `as u32` for a u64
U64AsU8(v)  == v[1]
U64AsU16(v) == <<v[1], v[2]>>
U64AsU32(v) == <<v[1], v[2], v[3], v[4]>>

\* The u64 of a small natural number (below 2^31)
FromInt(n) == <<n % 256, (n \div 256) % 256, (n \div 65536) % 256,
                n \div 16777216, 0, 0, 0, 0>>

\* The natural number of a u64 below 2^31, and -1 for the others
ToInt(w) ==
    IF w[5] = 0 /\ w[6] = 0 /\ w[7] = 0 /\ w[8] = 0 /\ w[4] < 128
    THEN w[1] + 256 * w[2] + 65536 * w[3] + 16777216 * w[4]
    ELSE -1

\* a + b on u64: the wrapped sum and whether it overflowed
AddC(a, b) ==
    LET s1 == a[1] + b[1]
        s2 == a[2] + b[2] + (s1 \div 256)
        s3 == a[3] + b[3] + (s2 \div 256)
        s4 == a[4] + b[4] + (s3 \div 256)
        s5 == a[5] + b[5] + (s4 \div 256)
        s6 == a[6] + b[6] + (s5 \div 256)
        s7 == a[7] + b[7] + (s6 \div 256)
        s8 == a[8] + b[8] + (s7 \div 256)
    IN  [val |-> <<s1 % 256, s2 % 256, s3 % 256, s4 % 256,
                   s5 % 256, s6 % 256, s7 % 256, s8 % 256>>,
         ovf |-> s8 >= 256]

\* a - b on u64: the wrapped difference and whether it overflowed
SubC(a, b) ==
    LET d1 == a[1] - b[1]
        d2 == a[2] - b[2] - (IF d1 < 0 THEN 1 ELSE 0)
        d3 == a[3] - b[3] - (IF d2 < 0 THEN 1 ELSE 0)
        d4 == a[4] - b[4] - (IF d3 < 0 THEN 1 ELSE 0)
        d5 == a[5] - b[5] - (IF d4 < 0 THEN 1 ELSE 0)
        d6 == a[6] - b[6] - (IF d5 < 0 THEN 1 ELSE 0)
        d7 == a[7] - b[7] - (IF d6 < 0 THEN 1 ELSE 0)
        d8 == a[8] - b[8] - (IF d7 < 0 THEN 1 ELSE 0)
    IN  [val |-> <<d1 % 256, d2 % 256, d3 % 256, d4 % 256,
                   d5 % 256, d6 % 256, d7 % 256, d8 % 256>>,
         ovf |-> d8 < 0]

WrappingAdd(a, b) == AddC(a, b).val
WrappingSub(a, b) == SubC(a, b).val

\* The n-bit field of a u64 that starts at bit lo: (w >> lo) & (2^n - 1), n <= 17
Field(w, lo, n) ==
    LET i == (lo \div 8) + 1
        B(j) == IF j <= 8 THEN w[j] ELSE 0
    IN  ((B(i) + 256 * B(i + 1) + 65536 * B(i + 2)) \div (2 ^ (lo % 8))) % (2 ^ n)

----------------------------------------------------------------------------
(* Results of fallible operations.  "err" carries an Interrupt that the     *)
(* try blocks catch; "panic" is a Rust panic (an arithmetic overflow in a   *)
(* build with overflow checks), which nothing catches; "fatal" is           *)
(* error::fatal, which exits the process.                                   *)

(* A result carries the value (val), the interrupt (int) and, for an         *)
(* operation that changes the machine, the machine it leaves (st).          *)

Ok(v)        == [tag |-> "ok", val |-> v, int |-> <<>>, st |-> <<>>]
Err(i)       == [tag |-> "err", val |-> <<>>, int |-> i, st |-> <<>>]
Panicked     == [tag |-> "panic", val |-> <<>>, int |-> <<>>, st |-> <<>>]
Done(s)      == [tag |-> "ok", val |-> <<>>, int |-> <<>>, st |-> s]
Raise(i, s)  == [tag |-> "err", val |-> <<>>, int |-> i, st |-> s]
FatalIn(s)   == [tag |-> "fatal", val |-> <<>>, int |-> <<>>, st |-> s]
\* The same failure, leaving machine s
FailIn(r, s) == [tag |-> r.tag, val |-> <<>>, int |-> r.int, st |-> s]

\* The one element of the set S.  The({e(x) : x \in {v}}) is e(v), the value
\* v being computed once however often e refers to x.
The(S) == CHOOSE x \in S : TRUE

\* An arithmetic result r as the build yields it: wrapped, or a panic on
\* overflow
Wrapped(r) == IF r.ovf /\ overflow_checks THEN Panicked ELSE Ok(r.val)

\* a + b and a - b as the build computes them
CheckedAdd(a, b) == Wrapped(AddC(a, b))
CheckedSub(a, b) == Wrapped(SubC(a, b))

\* The Interrupt enum
GeneralProtection == [kind |-> "GP", error_code |-> 0, cr2 |-> Zero64, irq |-> 0]
Undefined         == [kind |-> "UD", error_code |-> 0, cr2 |-> Zero64, irq |-> 0]
DoubleFault       == [kind |-> "DF", error_code |-> 0, cr2 |-> Zero64, irq |-> 0]
\* A page fault that does not carry the address
PageFaultAtZero(e, a) == [kind |-> "PF", error_code |-> e, cr2 |-> Zero64, irq |-> 0]
PageFault(e, a)   == [kind |-> "PF", error_code |-> e, cr2 |-> a, irq |-> 0]
IRQInterrupt(n)   == [kind |-> "IRQ", error_code |-> 0, cr2 |-> Zero64, irq |-> n]

----------------------------------------------------------------------------
(* The configuration main() builds: the ROM image, the physical ranges and  *)
(* the port map.  Addresses are those of the model's guests:                *)
(*   physical 0000-6FFF  ROM: page tables at 0000 (root), 1000, 2000, 3000, *)
(*                       a second root at 6000, code and IDT at 4000, IRET   *)
(*                       frames at 5000, which is also a root with entry    *)
(*                       511 only                                            *)
(*   physical 8000-9FFF  RAM                                                 *)
(*   virtual  0000 -> 4000, 1000 -> 8000, 2000 -> 5000, 3000 -> A000 (in no  *)
(*            range), FFFF_FFFF_FFFF_F000 -> 9000; the rest is not present   *)

\* The bytes `bytes` at the offsets at, at + 1, ...
Place(at, bytes) == [a \in at..(at + Len(bytes) - 1) |-> bytes[a - at + 1]]

\* A present page-table entry for the frame at physical address pa
Pte(pa) == FromInt(pa + 1)

\* The second root's entry 0 has every bit outside 12..62 set as well
PageTables ==
    Place(0, Pte(4096)) @@ Place(4088, Pte(4096))
    @@ Place(4096, Pte(8192)) @@ Place(8184, Pte(8192))
    @@ Place(8192, Pte(12288)) @@ Place(12280, Pte(12288))
    @@ Place(12288, Pte(16384) \o Pte(32768) \o Pte(20480) \o Pte(40960))
    @@ Place(16376, Pte(36864))
    @@ Place(24576, <<255, 31, 0, 0, 0, 0, 0, 128>>) @@ Place(28664, Pte(4096))
    @@ Place(24568, Pte(4096))

\* The 16 bytes of an IDT entry
IdtEntry(present, rpl, service_routine) ==
    <<present, 0, rpl, 0, 0, 0, 0, 0>> \o FromInt(service_routine)

\* The IDT at virtual 0 (idt is 0) and the service routines: IRET at 300
\* (UD), 320 (GP), 330 (PF), 340 (the timer's IRQ 20h), and a jump to itself
\* at 310 (DF).  The variants change the GP and DF entries, and "gp_nested"
\* makes the GP routine an undefined opcode.
Idt(variant) ==
    Place(16384 + 96, IdtEntry(1, 3, 768))
    @@ Place(16384 + 128,
             IdtEntry(IF variant = "df_absent" THEN 0 ELSE 1, 3, 784))
    @@ Place(16384 + 208,
             IdtEntry(CASE variant \in {"gp_absent", "df_absent"} -> 0
                        [] variant = "gp_invalid" -> 2
                        [] OTHER -> 1,
                      IF variant = "gp_rpl0" THEN 0 ELSE 3, 800))
    @@ Place(16384 + 224, IdtEntry(1, 3, 816))
    @@ Place(16384 + 512, IdtEntry(1, 3, 832))
    @@ Place(16384 + 768, <<207>>) @@ Place(16384 + 784, <<235, 254>>)
    @@ Place(16384 + 800, IF variant = "gp_nested" THEN <<15>> ELSE <<207>>)
    @@ Place(16384 + 816, <<207>>)
    @@ Place(16384 + 832, <<207>>)

\* The IRET frames at virtual 2000h + 32 k: error code, RIP = 600h, the
\* rflags word with the CPL in bits 32.., and rsp = 1F00h (in RAM) or, for
\* the last frame, 3F00h (in no physical range)
FrameWords == <<
    <<2, 2, 0, 0, 0, 0, 0, 0>>,
    <<2, 2, 0, 0, 3, 0, 0, 0>>,
    <<0, 0, 0, 0, 1, 0, 0, 0>>,
    <<2, 2, 0, 0, 4, 0, 0, 0>>,
    <<2, 2, 0, 0, 255, 255, 255, 255>>,
    <<2, 2, 0, 0, 0, 0, 0, 0>> >>

Frames ==
    LET F(k) == Place(20480 + 32 * (k - 1),
                      Zero64 \o FromInt(1536) \o FrameWords[k]
                      \o FromInt(IF k = 6 THEN 16128 ELSE 7936))
    IN  F(1) @@ F(2) @@ F(3) @@ F(4) @@ F(5) @@ F(6)

\* The code at the reset address 0 (a jump to 400h) and at 400h: a jump to
\* the body at 600h, or `mov rsp, frame; iret` for entry k >= 1
Entry(k) ==
    Place(16384, <<233, 251, 3, 0, 0>>)
    @@ Place(16384 + 1024,
             IF k = 0 THEN <<233, 251, 1, 0, 0>>
             ELSE <<72, 188>> \o FromInt(8192 + 32 * (k - 1)) \o <<207>>)

\* The bodies at 600h, each followed by a jump to itself
Bodies ==
    [in8    |-> <<228, 16>>,
     in16   |-> <<102, 229, 16>>,
     in32   |-> <<229, 16>>,
     in8d   |-> <<236>>,
     in16d  |-> <<102, 237>>,
     in32d  |-> <<237>>,
     out8   |-> <<230, 16>>,
     out16  |-> <<102, 231, 16>>,
     out32  |-> <<231, 64>>,
     timer  |-> <<176, 1, 230, 68>>,
     swi4   |-> <<72, 187>> \o FromInt(24576) \o <<63, 203>>,
     wrcr   |-> <<63, 195, 5>>,
     ud     |-> <<15>>,
     pf     |-> <<138, 4, 37, 0, 64, 0, 0>>,
     mov16  |-> <<72, 184, 136, 119, 102, 85, 68, 51, 34, 17, 102, 184, 52, 18>>,
     jmp    |-> <<102, 235, 1, 15, 233, 247, 253, 255, 255>>,
     riprel |-> <<72, 184, 190, 186, 254, 202, 239, 190, 173, 222,
                  233, 230, 9, 0, 0>>,
     pf0    |-> <<72, 184, 63, 203, 138, 1, 235, 254, 0, 0,
                  72, 187, 0, 240, 255, 255, 255, 255, 255, 255,
                  72, 137, 3>>
                \o <<72, 187>> \o FromInt(20480) \o <<233, 218, 233, 255, 255>>,
     inc    |-> <<72, 184, 255, 119, 102, 85, 68, 51, 34, 17,
                  254, 192, 102, 255, 192,
                  65, 184, 255, 255, 255, 255, 65, 255, 192, 72, 255, 192>>
                \o <<72, 187>> \o FromInt(4096)
                \o <<255, 3, 102, 255, 3, 254, 3, 72, 255, 3>>,
     iret   |-> <<72, 188>> \o FromInt(8192) \o <<207>>,
     wrap   |-> <<72, 184, 0, 0, 0, 0, 0, 0, 254, 192,
                  72, 187, 248, 255, 255, 255, 255, 255, 255, 255,
                  72, 137, 3, 233, 226, 249, 255, 255>>,
     push   |-> <<72, 188, 16, 240, 255, 255, 255, 255, 255, 255, 15>>]

Body(b) == Place(16384 + 1536, Bodies[b] \o <<235, 254>>)

\* The code at FF5h, the end of the page below the RAM at 1000h:
\* mov [rip + 10h], rax and a jump to itself
Far == Place(16384 + 4085, <<72, 137, 5, 16, 0, 0, 0, 235, 254>>)

\* The guests: <<entry, IDT variant, body>>
Scenarios ==
    ((0..5) \X {"ok"} \X {"in8", "out8", "swi4", "wrcr", "ud"})
    \cup ({0, 2} \X {"ok"} \X DOMAIN Bodies)
    \cup ({0, 2} \X {"gp_absent", "df_absent", "gp_rpl0", "gp_invalid"}
          \X {"in8", "out8"})
    \cup {<<2, "gp_nested", "in8">>, <<6, "ok", "ud">>}

\* The file the ROM of guest id is created from
RomImage(id) ==
    Body(id[3]) @@ Entry(id[1]) @@ Idt(id[2]) @@ Far @@ Frames @@ PageTables

\* toml.memory: the ROM and the RAM
MemoryConfig(id) ==
    (<<0, 28672>> :> [kind |-> "ROM", data |-> RomImage(id)])
    @@ (<<32768, 40960>> :> [kind |-> "RAM", data |-> <<>>])

\* toml.device: the console on port 10h, the timer on ports 40h-44h
PortConfig ==
    (16 :> <<"UTF8Console", 0>>)
    @@ [p \in 64..68 |-> <<"Timer", p - 64>>]

\* How many times the timer's threads call schedule_interrupt at most
MaxFires == 2

\* Timer::new(irq) with irq = 20h, and no thread spawned yet
NewTimer ==
    [counter |-> <<0, 0, 0, 0>>, irq |-> 32, mode |-> 0,
     sleeping |-> 0, firing |-> 0, fired |-> 0, unreachable |-> FALSE]

----------------------------------------------------------------------------
(* The physical bus.  ranges maps a key <<begin, end>> to its backend:      *)
(* [kind |-> "RAM", data |-> the bytes written so far, by offset] or        *)
(* [kind |-> "ROM", data |-> the image the ROM was created with].  Every    *)
(* range of the model ends below 2^31, so that a physical address at or     *)
(* above 2^31 (ToInt = -1) is in no range.                                  *)

\* Ord for Range (derived): by begin, then by end
RangeLess(k1, k2) == k1[1] < k2[1] \/ (k1[1] = k2[1] /\ k1[2] < k2[2])

\* lower_bound_mut(Bound::Excluded(&Range::new(address, u64::MAX))) and
\* cursor.prev(): the greatest key that is at most (address, u64::MAX);
\* {} when there is none
Predecessor(rs, n) ==
    LET below == IF n = -1 THEN DOMAIN rs ELSE {k \in DOMAIN rs : k[1] <= n}
    IN  {k \in below : \A k2 \in below : k2 = k \/ RangeLess(k2, k)}

\* Memory::read_u8 of the backends, at an offset: a RAM page is zero until
\* written, a ROM is its image followed by zeros
BackendRead(backend, off) ==
    IF off \in DOMAIN backend.data THEN backend.data[off] ELSE 0

\* A backend that drops every write
BackendWriteDropped(backend, off, value) == backend

\* Memory::write_u8 of the backends: ReadOnlyMemory drops the write
BackendWrite(backend, off, value) ==
    IF backend.kind = "ROM" THEN backend
    ELSE [backend EXCEPT !.data =
            [o \in DOMAIN backend.data \cup {off} |->
                IF o = off THEN value ELSE backend.data[o]]]

\* A bus whose addresses in no range read as 0
ReadUnderZero(rs, p, n) ==
    IF p = {} THEN 0
    ELSE The({ IF k[2] > n THEN BackendRead(rs[k], n - k[1]) ELSE 0 : k \in p })

\* The match of read_u8 on cursor.prev(), p being {the key found} or {}; n
\* is the address
ReadUnder(rs, p, n) ==
    IF p = {} THEN 255
    ELSE The({ IF k[2] > n THEN BackendRead(rs[k], n - k[1]) ELSE 255 : k \in p })

\* PhysicalMemoryManagementUnit::read_u8 for the address FromInt(n)
PhysReadAt(rs, n) == ReadUnder(rs, Predecessor(rs, n), n)

\* PhysicalMemoryManagementUnit::read_u8
PhysReadU8(rs, address) ==
    The({ IF n = -1 THEN 255 ELSE PhysReadAt(rs, n) : n \in {ToInt(address)} })

\* The match of write_u8 on cursor.prev()
WriteUnder(rs, p, n, value) ==
    IF p = {} THEN rs
    ELSE The({ IF k[2] > n
               THEN [rs EXCEPT ![k] = BackendWrite(rs[k], n - k[1], value)]
               ELSE rs
               : k \in p })

\* PhysicalMemoryManagementUnit::write_u8
PhysWriteU8(rs, address, value) ==
    The({ IF n = -1 THEN rs ELSE WriteUnder(rs, Predecessor(rs, n), n, value)
          : n \in {ToInt(address)} })

\* PhysicalMemoryManagementUnit::read_u64: the bytes at address + i, i = 0..7
PhysReadU64(rs, address) ==
    The({ IF n # -1 /\ n < 2147483640
          THEN Ok(Tup8([i \in 1..8 |-> PhysReadAt(rs, n + i - 1)]))
          ELSE IF CheckedAdd(address, FromInt(7)).tag = "panic" THEN Panicked
          ELSE Ok(Tup8([i \in 1..8 |->
                           PhysReadU8(rs, WrappingAdd(address, FromInt(i - 1)))]))
          : n \in {ToInt(address)} })

\* BTreeMap::insert: the value of an equal key is replaced
Inserted(rs, key, backend) ==
    [k \in DOMAIN rs \cup {key} |-> IF k = key THEN backend ELSE rs[k]]

\* PhysicalMemoryManagementUnit::add: error::fatal when base + size
\* overflows or when init() ends in it, and the range inserted with no look
\* at the others
add(rs, base, size, init) ==
    The({ IF end.ovf \/ init.tag = "fatal" THEN FatalIn(rs)
          ELSE Done(Inserted(rs, <<ToInt(base), ToInt(end.val)>>, init.val))
          : end \in {AddC(base, size)} })

----------------------------------------------------------------------------
(* The MMU.  A machine s is a record of the ProcessorState's fields, the    *)
(* MMU's and the devices'.                                                  *)

\* is_cannonical without the check
is_cannonical_any(address) == Ok(<<>>)

\* is_cannonical
is_cannonical(address) ==
    LET shifted == Field(address, 47, 17)
    IN  IF shifted = 0 \/ shifted = 131071 THEN Ok(<<>>) ELSE Err(GeneralProtection)

\* extract_address without the mask on the entry
extract_address_unmasked(s, base, index, virtual_address) ==
    The({ IF a.tag # "ok" THEN a ELSE
          The({ IF e.tag # "ok" THEN e
                ELSE IF e.val[1] % 2 = 0
                THEN Err(PageFault(0, virtual_address))
                ELSE Ok(e.val)
                : e \in {PhysReadU64(s.ranges, a.val)} })
          : a \in {CheckedAdd(base, FromInt(8 * index))} })

\* MemoryManagementUnit::extract_address
extract_address(s, base, index, virtual_address) ==
    The({ IF a.tag # "ok" THEN a ELSE
          The({ IF e.tag # "ok" THEN e
                ELSE IF e.val[1] % 2 = 0
                THEN Err(PageFault(0, virtual_address))
                ELSE Ok(<<0, e.val[2] - (e.val[2] % 16), e.val[3], e.val[4],
                          e.val[5], e.val[6], e.val[7], e.val[8] % 128>>)
                : e \in {PhysReadU64(s.ranges, a.val)} })
          : a \in {CheckedAdd(base, FromInt(8 * index))} })

\* MemoryManagementUnit::translate
translate(s, virtual_address) ==
    The({ IF c.tag # "ok" THEN c ELSE
    The({ IF level_2_ptr.tag # "ok" THEN level_2_ptr ELSE
    The({ IF level_3_ptr.tag # "ok" THEN level_3_ptr ELSE
    The({ IF level_4_ptr.tag # "ok" THEN level_4_ptr ELSE
    The({ IF page.tag # "ok" THEN page
          ELSE CheckedAdd(page.val, FromInt(Field(virtual_address, 0, 12)))
       : page \in {extract_address(s, level_4_ptr.val,
                                   Field(virtual_address, 12, 9), virtual_address)} })
       : level_4_ptr \in {extract_address(s, level_3_ptr.val,
                                   Field(virtual_address, 21, 9), virtual_address)} })
       : level_3_ptr \in {extract_address(s, level_2_ptr.val,
                                   Field(virtual_address, 30, 9), virtual_address)} })
       : level_2_ptr \in {extract_address(s, s.paging_table_address,
                                   Field(virtual_address, 39, 9), virtual_address)} })
       : c \in {is_cannonical(virtual_address)} })

\* MemoryManagementUnit::read_u8
MmuReadU8(s, virtual_address) ==
    The({ IF address.tag # "ok" THEN address
          ELSE Ok(PhysReadU8(s.ranges, address.val))
          : address \in {translate(s, virtual_address)} })

\* MemoryManagementUnit::write_u8; the result carries the machine
MmuWriteU8(s, virtual_address, value) ==
    The({ IF address.tag # "ok" THEN FailIn(address, s)
          ELSE Done([s EXCEPT !.ranges = PhysWriteU8(s.ranges, address.val, value)])
          : address \in {translate(s, virtual_address)} })

\* A read whose page fault carries the address the access starts at
RECURSIVE MmuReadFromStart(_, _, _, _, _)
MmuReadFromStart(s, virtual_address, n, k, got) ==
    IF k = n THEN Ok(got)
    ELSE The({ IF a.tag # "ok" THEN a ELSE
               The({ IF b.tag = "err" /\ b.int.kind = "PF"
                     THEN Err(PageFault(b.int.error_code, virtual_address))
                     ELSE IF b.tag # "ok" THEN b
                     ELSE MmuReadFromStart(s, virtual_address, n, k + 1,
                                           Append(got, b.val))
                     : b \in {MmuReadU8(s, a.val)} })
               : a \in {CheckedAdd(virtual_address, FromInt(k))} })

\* std::array::try_from_fn(|i| self.read_u8(virtual_address + i as u64)) for
\* i = k..n-1, after the bytes `got`: the n bytes, or the first failure
RECURSIVE MmuReadFrom(_, _, _, _, _)
MmuReadFrom(s, virtual_address, n, k, got) ==
    IF k = n THEN Ok(got)
    ELSE The({ IF a.tag # "ok" THEN a ELSE
               The({ IF b.tag # "ok" THEN b
                     ELSE MmuReadFrom(s, virtual_address, n, k + 1, Append(got, b.val))
                     : b \in {MmuReadU8(s, a.val)} })
               : a \in {CheckedAdd(virtual_address, FromInt(k))} })

\* MemoryManagementUnit::read_u16, read_u32, read_u64 (little-endian bytes)
MmuReadU16(s, virtual_address) == MmuReadFrom(s, virtual_address, 2, 0, <<>>)
MmuReadU32(s, virtual_address) == MmuReadFrom(s, virtual_address, 4, 0, <<>>)
MmuReadU64(s, virtual_address) == MmuReadFrom(s, virtual_address, 8, 0, <<>>)

\* A write that stores its bytes only once every one of them has translated
RECURSIVE MmuWriteFromAtomic(_, _, _, _)
MmuWriteFromAtomic(s, virtual_address, bytes, k) ==
    IF k = Len(bytes) THEN Done(s)
    ELSE The({ IF a.tag # "ok" THEN FailIn(a, s) ELSE
               The({ IF t.tag # "ok" THEN FailIn(t, s) ELSE
                     The({ IF r.tag # "ok" THEN r
                           ELSE MmuWriteU8(r.st, a.val, bytes[k + 1])
                           : r \in {MmuWriteFromAtomic(s, virtual_address, bytes,
                                                       k + 1)} })
                     : t \in {translate(s, a.val)} })
               : a \in {CheckedAdd(virtual_address, FromInt(k))} })

\* try_for_each(|(i, value)| self.write_u8(virtual_address + i as u64, value))
\* from byte k on: stops at the first failure, the earlier bytes stored
RECURSIVE MmuWriteFrom(_, _, _, _)
MmuWriteFrom(s, virtual_address, bytes, k) ==
    IF k = Len(bytes) THEN Done(s)
    ELSE The({ IF a.tag # "ok" THEN FailIn(a, s) ELSE
               The({ IF w.tag # "ok" THEN w
                     ELSE MmuWriteFrom(w.st, virtual_address, bytes, k + 1)
                     : w \in {MmuWriteU8(s, a.val, bytes[k + 1])} })
               : a \in {CheckedAdd(virtual_address, FromInt(k))} })

\* MemoryManagementUnit::write_u16, write_u32, write_u64
MmuWriteU16(s, virtual_address, value) == MmuWriteFrom(s, virtual_address, value, 0)
MmuWriteU32(s, virtual_address, value) == MmuWriteFrom(s, virtual_address, value, 0)
MmuWriteU64(s, virtual_address, value) == MmuWriteFrom(s, virtual_address, value, 0)

\* MemoryManagementUnit::swi4
swi4(s, address) == [s EXCEPT !.paging_table_address = address]

----------------------------------------------------------------------------
(* The register file *)

A  == 0
SP == 4

\* A variant that replaces the whole register
write_reg_u8_replacing(s, reg, value) ==
    [s EXCEPT !.registers[reg] = U8AsU64(value)]

\* ProcessorState::write_reg_u8: handle ^= (handle & 0xFF) ^ value as u64
write_reg_u8(s, reg, value) ==
    LET handle == s.registers[reg]
    IN  [s EXCEPT !.registers[reg] =
            XorW(handle, XorW(AndW(handle, FromInt(255)), U8AsU64(value)))]

\* ProcessorState::write_reg_u16: handle ^= (handle & 0xFF) ^ value as u64
write_reg_u16(s, reg, value) ==
    LET handle == s.registers[reg]
    IN  [s EXCEPT !.registers[reg] =
            XorW(handle, XorW(AndW(handle, FromInt(255)), U16AsU64(value)))]

\* A variant that keeps the upper 32 bits
write_reg_u32_keeping(s, reg, value) ==
    LET handle == s.registers[reg]
    IN  [s EXCEPT !.registers[reg] =
            <<value[1], value[2], value[3], value[4],
              handle[5], handle[6], handle[7], handle[8]>>]

\* ProcessorState::write_reg_u32
write_reg_u32(s, reg, value) == [s EXCEPT !.registers[reg] = U32AsU64(value)]

\* ProcessorState::write_reg_u64
write_reg_u64(s, reg, value) == [s EXCEPT !.registers[reg] = value]

\* ProcessorState::read_reg_u8, read_reg_u16, read_reg_u32, read_reg_u64
read_reg_u8(s, reg)  == U64AsU8(s.registers[reg])
read_reg_u16(s, reg) == U64AsU16(s.registers[reg])
read_reg_u32(s, reg) == U64AsU32(s.registers[reg])
read_reg_u64(s, reg) == s.registers[reg]

----------------------------------------------------------------------------
(* The interrupt engine *)

\* A variant that delivers an IRQ on the GeneralProtection vector
VectorOfFault(interrupt) ==
    CASE interrupt.kind = "UD"  -> 6
      [] interrupt.kind = "DF"  -> 8
      [] interrupt.kind = "PF"  -> 14
      [] OTHER -> 13

\* The vector and error code of an interrupt (the match of interrupt())
Vector(interrupt) ==
    CASE interrupt.kind = "UD"  -> 6
      [] interrupt.kind = "DF"  -> 8
      [] interrupt.kind = "GP"  -> 13
      [] interrupt.kind = "PF"  -> 14
      [] interrupt.kind = "IRQ" -> interrupt.irq

ErrorCode(interrupt) ==
    IF interrupt.kind = "PF" THEN interrupt.error_code ELSE 0

\* `cpl as i64 as u64` shifted left by 32, for an i8
CplWord(c) ==
    LET x == IF c < 0 THEN 255 ELSE 0
    IN  <<0, 0, 0, 0, (c + 256) % 256, x, x, x>>

\* `as i8` of a byte
AsI8(b) == IF b >= 128 THEN b - 256 ELSE b

\* InteruptDescriptorEntry, transmuted from the 16 bytes read (repr(C):
\* present at 0, disable_interrupt at 1, rpl at 2, service_routine at 8).
\* A `present` byte other than 0 and 1 is no valid bool: reading it is
\* undefined behaviour, and `ub` is the value the build then yields.
InteruptDescriptorEntry(data, ub) ==
    [present |-> IF data[1] = 0 THEN FALSE ELSE IF data[1] = 1 THEN TRUE ELSE ub,
     disable_interrupt |-> data[2],
     rpl |-> AsI8(data[3]),
     service_routine |-> <<data[9], data[10], data[11], data[12],
                           data[13], data[14], data[15], data[16]>>]

\* The four pushes of the frame, from the k-th on (the `?` after each)
RECURSIVE PushFrame(_, _, _, _)
PushFrame(s, new_stack_pointer, values, k) ==
    IF k > Len(values) THEN Done(s)
    ELSE The({ IF a.tag # "ok" THEN FailIn(a, s) ELSE
               The({ IF w.tag # "ok" THEN w
                     ELSE PushFrame(w.st, new_stack_pointer, values, k + 1)
                     : w \in {MmuWriteU64(s, a.val, values[k])} })
               : a \in {CheckedSub(new_stack_pointer, FromInt(8 * k))} })

\* The match of interrupt() on the interrupt: a page fault stores cr2
WithCr2(s, interrupt) ==
    IF interrupt.kind = "PF" THEN [s EXCEPT !.cr2 = interrupt.cr2] ELSE s

\* A variant that builds the frame on the interrupted stack at every CPL
NewStackPointerKept(s) == s.registers[SP]

\* The stack the frame goes to
NewStackPointer(s) ==
    IF s.cpl <= 0 THEN s.registers[SP] ELSE s.interupt_stack_pointer

\* The try block of ProcessorState::interrupt after the match: one entry
\* attempt
EnterThrough(s, interrupt, ub) ==
    The({ IF ptr.tag # "ok" THEN FailIn(ptr, s) ELSE
    The({ IF data.tag # "ok" THEN FailIn(data, s) ELSE
    The({ IF ~entry.present \/ entry.rpl < s.cpl THEN Raise(DoubleFault, s) ELSE
    The({ IF w.tag # "ok" THEN w
          ELSE Done([w.st EXCEPT
                      !.instruction_pointer = entry.service_routine,
                      !.registers[SP] = WrappingSub(NewStackPointer(s), FromInt(32)),
                      !.cpl = 0])
       : w \in {PushFrame(s, NewStackPointer(s),
                          <<s.registers[SP],
                            OrW(CplWord(s.cpl), s.rflags),
                            s.instruction_pointer,
                            FromInt(ErrorCode(interrupt))>>, 1)} })
       : entry \in {InteruptDescriptorEntry(data.val, ub)} })
       : data \in {MmuReadFrom(s, ptr.val, 16, 0, <<>>)} })
       : ptr \in {CheckedAdd(s.idt, FromInt(16 * Vector(interrupt)))} })

\* The try block of ProcessorState::interrupt
InterruptEntry(s0, interrupt, ub) == EnterThrough(WithCr2(s0, interrupt), interrupt, ub)

\* Whether the entry's `present` byte is one the transmute makes undefined
InvalidPresent(s, interrupt) ==
    \E ptr \in {CheckedAdd(s.idt, FromInt(16 * Vector(interrupt)))} :
        /\ ptr.tag = "ok"
        /\ \E b \in {MmuReadU8(s, ptr.val)} : b.tag = "ok" /\ b.val \notin {0, 1}

RECURSIVE Interrupt(_, _, _)

\* A variant in which a failed attempt has entered ring 0 before it is
\* escalated
OutcomesFromRing0(r, interrupt, tried) ==
    IF r.tag = "ok"
    THEN {[st |-> r.st, status |-> "running", attempts |-> tried]}
    ELSE IF r.tag = "panic"
    THEN {[st |-> r.st, status |-> "panic", attempts |-> tried]}
    ELSE IF interrupt.kind = "DF"
    THEN {[st |-> r.st, status |-> "triple_fault", attempts |-> tried]}
    ELSE Interrupt([r.st EXCEPT !.cpl = 0], DoubleFault, tried)

\* What interrupt() does with the result r of the try block: the entry
\* stands, or it is escalated by self.interrupt(Interrupt::DoubleFault), or,
\* for a DoubleFault, it ends in fatal("Tripple fault")
Outcomes(r, interrupt, tried) ==
    IF r.tag = "ok"
    THEN {[st |-> r.st, status |-> "running", attempts |-> tried]}
    ELSE IF r.tag = "panic"
    THEN {[st |-> r.st, status |-> "panic", attempts |-> tried]}
    ELSE IF interrupt.kind = "DF"
    THEN {[st |-> r.st, status |-> "triple_fault", attempts |-> tried]}
    ELSE Interrupt(r.st, DoubleFault, tried)

\* ProcessorState::interrupt.  The result is the set of the outcomes the
\* build can produce (more than one when a `present` byte is invalid);
\* attempts lists the vectors of the entries attempted so far.
Interrupt(s, interrupt, attempts) ==
    UNION { Outcomes(InterruptEntry(s, interrupt, ub), interrupt,
                     Append(attempts, Vector(interrupt)))
            : ub \in IF InvalidPresent(WithCr2(s, interrupt), interrupt)
                     THEN BOOLEAN ELSE {FALSE} }

----------------------------------------------------------------------------
(* The decoder (instruction.rs and the code generate_instructions! expands  *)
(* the instruction table to)                                                *)

\* Option<Rex>: None, and Rex::new(byte)
NoRex == [some |-> FALSE, w |-> FALSE, r |-> FALSE, x |-> FALSE, b |-> FALSE]
RexNew(byte) == [some |-> TRUE, w |-> Bit(byte, 3) = 1, r |-> Bit(byte, 2) = 1,
                 x |-> Bit(byte, 1) = 1, b |-> Bit(byte, 0) = 1]

\* rex_w, rex_r, rex_x, rex_b, after a variant of rex_w that never sees
\* REX.W
rex_w_never(rex) == FALSE
rex_w(rex) == rex.some /\ rex.w
rex_r(rex) == rex.some /\ rex.r
rex_x(rex) == rex.some /\ rex.x
rex_b(rex) == rex.some /\ rex.b

B2N(b) == IF b THEN 1 ELSE 0

\* The RM enum
RMReg(reg) ==
    [form |-> "Reg", reg |-> reg, index |-> 0, scale |-> 0, base |-> 0,
     displacement |-> <<0, 0, 0, 0>>, address_override |-> FALSE,
     segment_override |-> "None"]
RMRipRel(displacement, address_override) ==
    [form |-> "RipRel", reg |-> 0, index |-> 0, scale |-> 0, base |-> 0,
     displacement |-> displacement, address_override |-> address_override,
     segment_override |-> "None"]
RMMem(index, scale, base, displacement, address_override, segment_override) ==
    [form |-> "Mem", reg |-> 0, index |-> index, scale |-> scale, base |-> base,
     displacement |-> displacement, address_override |-> address_override,
     segment_override |-> segment_override]

\* A variant that leaves REX.B out
parse_suffix_low(opcode, rex) == opcode % 8

\* Reg::parse_suffix
parse_suffix(opcode, rex) == 8 * B2N(rex_b(rex)) + (opcode % 8)

\* parse_sib
parse_sib(byte, address_override, segment_override, displacement, rex) ==
    RMMem(8 * B2N(rex_x(rex)) + ((byte \div 8) % 8), (byte \div 64) % 4,
          8 * B2N(rex_b(rex)) + (byte % 8),
          displacement, address_override, segment_override)

\* parse_sib_no_base: the base 0xFF stands for zero
parse_sib_no_base(byte, address_override, segment_override, displacement, rex) ==
    RMMem(8 * B2N(rex_x(rex)) + ((byte \div 8) % 8), (byte \div 64) % 4, 255,
          displacement, address_override, segment_override)

\* n times `mmu.read_u8(instruction_pointer + *size)?; *size += 1`
FetchN(s, ip, size, n) ==
    IF n = 0 THEN Ok(<<>>)
    ELSE The({ IF a.tag # "ok" THEN a ELSE MmuReadFrom(s, a.val, n, 0, <<>>)
               : a \in {CheckedAdd(ip, FromInt(size))} })

\* `as u32` of a byte, and u32::from_le_bytes
U8AsU32(b) == <<b, 0, 0, 0>>

\* read_modrm's result: Ok of [reg, rm, size], size being *size afterwards,
\* n bytes having followed the ModR/M byte
ModrmOut(modrm_byte, rm, size, n, rex) ==
    Ok([reg |-> 8 * B2N(rex_r(rex)) + ((modrm_byte \div 8) % 8), rm |-> rm,
        size |-> size + 1 + n])

\* The displacement of n bytes read as d.val: none, a byte `as u32`, or
\* u32::from_le_bytes
Displacement(d, n) ==
    CASE n = 0 -> <<0, 0, 0, 0>>
      [] n = 1 -> U8AsU32(d.val[1])
      [] n = 4 -> d.val

\* A variant that reads one displacement byte in mode 10 as well
DisplacementBytesShort(mode, sib, sib_byte) ==
    CASE mode = 0 -> (IF sib /\ sib_byte % 8 = 5 THEN 4 ELSE 0)
      [] OTHER -> 1

\* How many displacement bytes follow, by the mode (and, with a SIB byte, by
\* its base field)
DisplacementBytes(mode, sib, sib_byte) ==
    CASE mode = 0 -> (IF sib /\ sib_byte % 8 = 5 THEN 4 ELSE 0)
      [] mode = 1 -> 1
      [] mode = 2 -> 4

\* read_modrm after the ModR/M byte was read
ModrmAfter(s, modrm_byte, size, ip, address_override, segment_override, rex) ==
    LET rm_field == modrm_byte % 8
        mode     == modrm_byte \div 64
        base     == 8 * B2N(rex_b(rex)) + rm_field
    IN  IF mode = 3 THEN ModrmOut(modrm_byte, RMReg(base), size, 0, rex)
        ELSE IF mode = 0 /\ rm_field = 5
        THEN The({ IF d.tag # "ok" THEN d
                   ELSE ModrmOut(modrm_byte, RMRipRel(d.val, address_override),
                                 size, 4, rex)
                   : d \in {FetchN(s, ip, size + 1, 4)} })
        ELSE IF rm_field # 4
        THEN The({ IF d.tag # "ok" THEN d
                   ELSE ModrmOut(modrm_byte,
                                 RMMem(4, 0, base,
                                       Displacement(d, DisplacementBytes(mode, FALSE, 0)),
                                       address_override, segment_override),
                                 size, DisplacementBytes(mode, FALSE, 0), rex)
                   : d \in {FetchN(s, ip, size + 1,
                                   DisplacementBytes(mode, FALSE, 0))} })
        ELSE The({ IF sb.tag # "ok" THEN sb ELSE
             The({ IF d.tag # "ok" THEN d
                   ELSE IF mode = 0 /\ sb.val[1] % 8 = 5
                   THEN ModrmOut(modrm_byte,
                                 parse_sib_no_base(sb.val[1], address_override,
                                                   segment_override, d.val, rex),
                                 size, 5, rex)
                   ELSE ModrmOut(modrm_byte,
                                 parse_sib(sb.val[1], address_override,
                                           segment_override,
                                           Displacement(d, DisplacementBytes(mode, TRUE, sb.val[1])),
                                           rex),
                                 size, 1 + DisplacementBytes(mode, TRUE, sb.val[1]), rex)
                   : d \in {FetchN(s, ip, size + 2,
                                   DisplacementBytes(mode, TRUE, sb.val[1]))} })
                   : sb \in {FetchN(s, ip, size + 1, 1)} })

\* read_modrm
read_modrm(s, size, ip, address_override, segment_override, rex) ==
    The({ IF m.tag # "ok" THEN m
          ELSE ModrmAfter(s, m.val[1], size, ip, address_override,
                          segment_override, rex)
          : m \in {FetchN(s, ip, size, 1)} })

\* read_immediate: nbytes bytes, little-endian, zero-extended to a u64
read_immediate(s, size, ip, nbytes) ==
    The({ IF r.tag # "ok" THEN r
          ELSE Ok(Tup8([i \in 1..8 |-> IF i <= nbytes THEN r.val[i] ELSE 0]))
          : r \in {FetchN(s, ip, size, nbytes)} })

\* parse_instruction: one row of the table (opcode1 is 0xFF when the row
\* names one opcode byte; an operand is "" when absent)
T(name, opcode0, opcode1, operand0, operand1, size_override, wide) ==
    [name |-> name, opcode0 |-> opcode0, opcode1 |-> opcode1,
     operand0 |-> operand0, operand1 |-> operand1,
     size_override |-> size_override, wide |-> wide]

\* The table given to generate_instructions!, opcodes in decimal
InstructionTable == <<
    T("In8", 228, 255, "Imm8", "", FALSE, FALSE),
    T("In16", 229, 255, "Imm8", "", TRUE, FALSE),
    T("In32", 229, 255, "Imm8", "", FALSE, FALSE),
    T("In8D", 236, 255, "", "", FALSE, FALSE),
    T("In16D", 237, 255, "", "", TRUE, FALSE),
    T("In32D", 237, 255, "", "", FALSE, FALSE),
    T("IncRM8", 254, 0, "RM", "", FALSE, FALSE),
    T("IncRM16", 255, 0, "RM", "", TRUE, FALSE),
    T("IncRM32", 255, 0, "RM", "", FALSE, FALSE),
    T("IncRM64", 255, 0, "RM", "", FALSE, TRUE),
    T("Iret", 207, 255, "", "", FALSE, FALSE),
    T("JmpRel8", 235, 255, "Imm8", "", FALSE, FALSE),
    T("JmpRel32", 233, 255, "Imm32", "", FALSE, FALSE),
    T("MovReg8Imm", 176, 255, "SR", "Imm8", FALSE, FALSE),
    T("MovReg16Imm", 184, 255, "SR", "Imm16", TRUE, FALSE),
    T("MovReg32Imm", 184, 255, "SR", "Imm32", FALSE, FALSE),
    T("MovReg64Imm", 184, 255, "SR", "Imm64", FALSE, TRUE),
    T("MovReg8RM", 138, 255, "R", "RM", FALSE, FALSE),
    T("MovReg16RM", 139, 255, "R", "RM", TRUE, FALSE),
    T("MovReg32RM", 139, 255, "R", "RM", FALSE, FALSE),
    T("MovReg64RM", 139, 255, "R", "RM", FALSE, TRUE),
    T("MovRM8Reg", 136, 255, "RM", "R", FALSE, FALSE),
    T("MovRM16Reg", 137, 255, "RM", "R", TRUE, FALSE),
    T("MovRM32Reg", 137, 255, "RM", "R", FALSE, FALSE),
    T("MovRM64Reg", 137, 255, "RM", "R", FALSE, TRUE),
    T("Out8", 230, 255, "Imm8", "", FALSE, FALSE),
    T("Out16", 231, 255, "Imm8", "", TRUE, FALSE),
    T("Out32", 231, 255, "Imm8", "", FALSE, FALSE),
    T("Swi4", 63, 1, "RM", "", FALSE, FALSE),
    T("Wrcr", 63, 0, "Imm8", "RM", FALSE, FALSE)
>>

\* InstructionEncoding::suffix_reg, needs_modrm, immediate_size
suffix_reg(e) == e.operand0 = "SR" \/ e.operand1 = "SR"
needs_modrm(e) ==
    (e.operand0 \in {"RM", "R"} \/ e.operand1 \in {"RM", "R"})
    /\ (e.opcode0 = 15 \/ e.opcode1 = 255)
ImmBytes(operand) ==
    CASE operand = "Imm8" -> 1 [] operand = "Imm16" -> 2
      [] operand = "Imm32" -> 4 [] operand = "Imm64" -> 8 [] OTHER -> 0
immediate_size(e) ==
    IF ImmBytes(e.operand0) # 0 THEN ImmBytes(e.operand0) ELSE ImmBytes(e.operand1)

\* generate_instructions: the rows grouped under first opcode byte `byte`
\* (a SuffixReg row under its 8 consecutive bytes), in table order
Group(byte) ==
    SelectSeq(InstructionTable,
              LAMBDA e : IF suffix_reg(e)
                         THEN e.opcode0 <= byte /\ byte < e.opcode0 + 8
                         ELSE e.opcode0 = byte)

\* The first row of a sequence, as a sequence of 0 or 1 rows
First(rows) == IF rows = <<>> THEN <<>> ELSE <<Head(rows)>>

\* OperandEncoding::generate: the operand of a decoded instruction
Operand(operand, c, reg, rm, immediate) ==
    CASE operand = "SR" -> parse_suffix(c.byte, c.rex)
      [] operand = "R"  -> reg
      [] operand = "RM" -> rm
      [] operand = ""   -> <<>>
      [] OTHER          -> immediate

\* generate_instruction_decode: the ModR/M bytes if the row needs them, the
\* immediate, and the instruction with the bytes consumed.  c is the decode
\* context; c.reg and c.rm are those of the group's ModR/M byte.
DecodeRow(s, e, c) ==
    The({ IF m.tag # "ok" THEN m ELSE
    The({ IF imm.tag # "ok" THEN imm
          ELSE Ok([instruction |->
                      [op |-> e.name,
                       operand0 |-> Operand(e.operand0, c, m.val.reg, m.val.rm, imm.val),
                       operand1 |-> Operand(e.operand1, c, m.val.reg, m.val.rm, imm.val)],
                   size |-> m.val.size + immediate_size(e)])
       : imm \in {read_immediate(s, m.val.size, c.ip, immediate_size(e))} })
       : m \in {IF needs_modrm(e)
                THEN read_modrm(s, c.size, c.ip, c.address_override,
                                c.segment_override, c.rex)
                ELSE Ok([reg |-> c.reg, rm |-> c.rm, size |-> c.size])} })

\* generate_opcode_arm: the code of one arm of the opcode match
RECURSIVE OpcodeArm(_, _, _, _)
OpcodeArm(s, rows, reg_opcode, c) ==
    IF rows[1].opcode1 # 255 /\ ~reg_opcode
    THEN \* the reg field of the ModR/M byte is an opcode extension
         The({ IF m.tag # "ok" THEN m ELSE
         The({ IF members = <<>> THEN Err(Undefined)
               ELSE OpcodeArm(s, members, TRUE,
                              [c EXCEPT !.reg = m.val.reg, !.rm = m.val.rm,
                                        !.size = m.val.size])
            : members \in {SelectSeq(rows, LAMBDA e : e.opcode1 = m.val.reg)} })
            : m \in {read_modrm(s, c.size, c.ip, c.address_override,
                                c.segment_override, c.rex)} })
    ELSE LET wide_instruction == First(SelectSeq(rows, LAMBDA e : e.wide))
             so_instruction   == First(SelectSeq(rows, LAMBDA e : e.size_override))
             default          == First(SelectSeq(rows, LAMBDA e : ~e.size_override /\ ~e.wide))
         IN  IF wide_instruction # <<>> /\ rex_w(c.rex)
             THEN DecodeRow(s, wide_instruction[1], c)
             ELSE IF so_instruction # <<>> /\ c.size_override
             THEN DecodeRow(s, so_instruction[1], c)
             ELSE IF default # <<>>
             THEN DecodeRow(s, default[1], c)
             ELSE Err(Undefined)

\* A variant that does not count the prefix byte
PrefixedUncounted(r) == r

\* A result with `size + 1` for its size (a prefix byte was consumed)
Prefixed(r) ==
    IF r.tag # "ok" THEN r
    ELSE Ok([instruction |-> r.val.instruction, size |-> r.val.size + 1])

\* decode_internal
RECURSIVE decode_internal(_, _, _, _, _, _, _)

\* The recursive call of a prefix arm, on the byte at instruction_pointer + 1
AfterPrefix(s, next, size_override, address_override, lock_rep, segment_override, rex) ==
    IF next.tag # "ok" THEN next
    ELSE Prefixed(decode_internal(s, next.val, size_override, address_override,
                                  lock_rep, segment_override, rex))

\* The match of decode_internal on the byte read, `next` being
\* instruction_pointer + 1
DecodeByte(s, ip, byte, next, size_override, address_override, lock_rep, segment_override, rex) ==
    CASE byte \in {38, 46, 54, 62} ->
            AfterPrefix(s, next, size_override, address_override, lock_rep,
                        segment_override, NoRex)
      [] byte = 100 ->
            AfterPrefix(s, next, size_override, address_override, lock_rep, "Fs", NoRex)
      [] byte = 101 ->
            AfterPrefix(s, next, size_override, address_override, lock_rep, "Gs", NoRex)
      [] byte = 102 ->
            AfterPrefix(s, next, TRUE, address_override, lock_rep, segment_override, NoRex)
      [] byte = 103 ->
            AfterPrefix(s, next, size_override, TRUE, lock_rep, segment_override, NoRex)
      [] byte = 240 ->
            AfterPrefix(s, next, size_override, address_override, "Lock",
                        segment_override, NoRex)
      [] byte = 242 ->
            AfterPrefix(s, next, size_override, address_override, "Repne",
                        segment_override, NoRex)
      [] byte = 243 ->
            AfterPrefix(s, next, size_override, address_override, "Repe",
                        segment_override, NoRex)
      [] byte \in 64..79 ->
            AfterPrefix(s, next, size_override, address_override, lock_rep,
                        segment_override, RexNew(byte))
      [] OTHER ->
            IF Group(byte) = <<>> THEN Err(Undefined)
            ELSE OpcodeArm(s, Group(byte), FALSE,
                           [byte |-> byte, size |-> 1, ip |-> ip,
                            size_override |-> size_override,
                            address_override |-> address_override,
                            segment_override |-> segment_override,
                            rex |-> rex, reg |-> 0, rm |-> <<>>])

decode_internal(s, ip, size_override, address_override, lock_rep, segment_override, rex) ==
    The({ IF b.tag # "ok" THEN b
          ELSE DecodeByte(s, ip, b.val, CheckedAdd(ip, FromInt(1)), size_override,
                          address_override, lock_rep, segment_override, rex)
          : b \in {MmuReadU8(s, ip)} })

\* decode
decode(s, ip) == decode_internal(s, ip, FALSE, FALSE, "None", "None", NoRex)

----------------------------------------------------------------------------
(* The devices.  ports maps a port to <<device, the device's own port>>;    *)
(* the model's configuration has a UTF8Console and a Timer.                 *)

\* Timer::out_u8; the byte of the counter a port replaces, and on port 4
\* the mode stored and run_timer, which spawns a thread
TimerOut(t, port, byte) ==
    IF port \in 0..3
    THEN [t EXCEPT !.counter[port + 1] =
            XorByte(@, XorByte(AndByte(@, 255), byte))]
    ELSE IF port = 4
    THEN [t EXCEPT !.mode = byte, !.sleeping = @ + 1]
    ELSE [t EXCEPT !.unreachable = TRUE]

\* PortDevices::out_u8
out_u8(s, port, byte) ==
    IF port \in DOMAIN s.ports
    THEN IF s.ports[port][1] = "UTF8Console"
         THEN [s EXCEPT !.console = Append(@, byte)]
         ELSE [s EXCEPT !.timer = TimerOut(@, s.ports[port][2], byte)]
    ELSE s

\* PortDevices::out_u32: the bytes from the k-th on to the ports that
\* `port..` yields.  RangeFrom::next computes Step::forward(start, 1) before
\* it yields start: with overflow checks it panics when the port after the
\* one to yield passes FFFFh, and without them the ports wrap
RECURSIVE OutBytes(_, _, _, _)
OutBytes(s, port, bytes, k) ==
    IF k > Len(bytes) THEN Done(s)
    ELSE IF port + k > 65535 /\ overflow_checks THEN FailIn(Panicked, s)
    ELSE OutBytes(out_u8(s, (port + k - 1) % 65536, bytes[k]), port, bytes, k + 1)

out_u32(s, port, value) == OutBytes(s, port, value, 1)

\* PortDevices::in_u8; stdin is the byte the UTF8Console reads (0xFF at the
\* end of the input), and the Timer reads as 0xFF
in_u8(s, port, stdin) ==
    IF port \in DOMAIN s.ports
    THEN IF s.ports[port][1] = "UTF8Console" THEN stdin ELSE 255
    ELSE 255

----------------------------------------------------------------------------
(* The executor *)

\* index << scale
RECURSIVE Shl(_, _)
Shl(w, k) == IF k = 0 THEN w ELSE Shl(WrappingAdd(w, w), k - 1)

\* The address of an RM that is not a register (read_write_rm!)
EffectiveAddress(s, rm) ==
    IF rm.form = "RipRel"
    THEN CheckedAdd(IF rm.address_override
                    THEN AndW(s.instruction_pointer, FromInt(65535))
                    ELSE s.instruction_pointer,
                    U32AsU64(rm.displacement))
    ELSE The({ IF a1.tag # "ok" THEN a1 ELSE
         The({ IF a2.tag # "ok" THEN a2
               ELSE IF rm.address_override
               THEN Ok(AndW(a2.val, FromInt(65535)))
               ELSE a2
            : a2 \in {CheckedAdd(a1.val, U32AsU64(rm.displacement))} })
            : a1 \in {CheckedAdd(
                        IF rm.base = 255 THEN Zero64 ELSE read_reg_u64(s, rm.base),
                        Shl(IF rm.index = 4 THEN Zero64 ELSE read_reg_u64(s, rm.index),
                            rm.scale))} })

\* read_rm_u8, read_rm_u16, read_rm_u32, read_rm_u64
read_rm_u8(s, rm) ==
    IF rm.form = "Reg" THEN Ok(read_reg_u8(s, rm.reg))
    ELSE The({ IF a.tag # "ok" THEN a ELSE MmuReadU8(s, a.val)
               : a \in {EffectiveAddress(s, rm)} })
read_rm_u16(s, rm) ==
    IF rm.form = "Reg" THEN Ok(read_reg_u16(s, rm.reg))
    ELSE The({ IF a.tag # "ok" THEN a ELSE MmuReadU16(s, a.val)
               : a \in {EffectiveAddress(s, rm)} })
read_rm_u32(s, rm) ==
    IF rm.form = "Reg" THEN Ok(read_reg_u32(s, rm.reg))
    ELSE The({ IF a.tag # "ok" THEN a ELSE MmuReadU32(s, a.val)
               : a \in {EffectiveAddress(s, rm)} })
read_rm_u64(s, rm) ==
    IF rm.form = "Reg" THEN Ok(read_reg_u64(s, rm.reg))
    ELSE The({ IF a.tag # "ok" THEN a ELSE MmuReadU64(s, a.val)
               : a \in {EffectiveAddress(s, rm)} })

\* write_rm_u8, write_rm_u16, write_rm_u32, write_rm_u64
write_rm_u8(s, rm, value) ==
    IF rm.form = "Reg" THEN Done(write_reg_u8(s, rm.reg, value))
    ELSE The({ IF a.tag # "ok" THEN FailIn(a, s) ELSE MmuWriteU8(s, a.val, value)
               : a \in {EffectiveAddress(s, rm)} })
write_rm_u16(s, rm, value) ==
    IF rm.form = "Reg" THEN Done(write_reg_u16(s, rm.reg, value))
    ELSE The({ IF a.tag # "ok" THEN FailIn(a, s) ELSE MmuWriteU16(s, a.val, value)
               : a \in {EffectiveAddress(s, rm)} })
write_rm_u32(s, rm, value) ==
    IF rm.form = "Reg" THEN Done(write_reg_u32(s, rm.reg, value))
    ELSE The({ IF a.tag # "ok" THEN FailIn(a, s) ELSE MmuWriteU32(s, a.val, value)
               : a \in {EffectiveAddress(s, rm)} })
write_rm_u64(s, rm, value) ==
    IF rm.form = "Reg" THEN Done(write_reg_u64(s, rm.reg, value))
    ELSE The({ IF a.tag # "ok" THEN FailIn(a, s) ELSE MmuWriteU64(s, a.val, value)
               : a \in {EffectiveAddress(s, rm)} })

\* wrapping_add(1) on a little-endian value of Len(v) bytes
RECURSIVE AddCarry(_, _)
AddCarry(v, carry) ==
    IF v = <<>> THEN <<>>
    ELSE <<(v[1] + carry) % 256>> \o AddCarry(Tail(v), (v[1] + carry) \div 256)
WrappingInc(v) == AddCarry(v, 1)

\* `as u64` of the low byte of an immediate, with no sign
ZeroExtend8(imm) == <<imm[1], 0, 0, 0, 0, 0, 0, 0>>

\* `as i8 as i64 as u64` and `as i32 as i64 as u64` of an immediate
SignExtend8(imm) ==
    LET x == IF imm[1] >= 128 THEN 255 ELSE 0 IN <<imm[1], x, x, x, x, x, x, x>>
SignExtend32(imm) ==
    LET x == IF imm[4] >= 128 THEN 255 ELSE 0
    IN  <<imm[1], imm[2], imm[3], imm[4], x, x, x, x>>

\* `operand0.0 as u16` of an immediate, as a port number
PortOf(imm) == imm[1] + 256 * imm[2]

\* A variant that lets every ring of 0..3 through
UnprivilegedAbove3(s) == s.cpl > 3

\* The test `self.cpl > 0` of the In and Out arms
Unprivileged(s) == s.cpl > 0

\* self.mmu.read_u64(rsp + n)
ReadAbove(s, rsp, n) ==
    The({ IF a.tag # "ok" THEN a ELSE MmuReadU64(s, a.val)
          : a \in {CheckedAdd(rsp, FromInt(n))} })

\* The match of step_instruction on a decoded instruction, up to (not
\* including) the advance of the instruction pointer.  stdin is the byte a
\* console read yields.  The result's val is "return" for the arm that
\* returns from step_instruction (Iret).
Execute(s, instruction, stdin) ==
    LET op == instruction.op
        operand0 == instruction.operand0
        operand1 == instruction.operand1
        rsp == read_reg_u64(s, SP)
    IN
    CASE op = "In8" ->
            IF Unprivileged(s) THEN Raise(GeneralProtection, s)
            ELSE Done(write_reg_u8(s, A, in_u8(s, PortOf(operand0), stdin)))
      [] op \in {"In16", "In32", "In16D", "In32D", "Out16"} ->
            IF Unprivileged(s) THEN Raise(GeneralProtection, s) ELSE FatalIn(s)
      [] op = "In8D" ->
            IF Unprivileged(s) THEN Raise(GeneralProtection, s)
            ELSE Done(write_reg_u8(s, A, in_u8(s, PortOf(read_reg_u16(s, 2)), stdin)))
      [] op = "IncRM8" ->
            The({ IF got.tag # "ok" THEN FailIn(got, s)
                  ELSE write_rm_u8(s, operand0, (got.val + 1) % 256)
                  : got \in {read_rm_u8(s, operand0)} })
      [] op = "IncRM16" ->
            The({ IF got.tag # "ok" THEN FailIn(got, s)
                  ELSE write_rm_u16(s, operand0, WrappingInc(got.val))
                  : got \in {read_rm_u16(s, operand0)} })
      [] op = "IncRM32" ->
            The({ IF got.tag # "ok" THEN FailIn(got, s)
                  ELSE write_rm_u32(s, operand0, WrappingInc(got.val))
                  : got \in {read_rm_u32(s, operand0)} })
      [] op = "IncRM64" ->
            The({ IF got.tag # "ok" THEN FailIn(got, s)
                  ELSE write_rm_u64(s, operand0, WrappingInc(got.val))
                  : got \in {read_rm_u64(s, operand0)} })
      [] op = "Iret" ->
            The({ IF new_ip.tag # "ok" THEN FailIn(new_ip, s) ELSE
            The({ IF new_rflags.tag # "ok" THEN FailIn(new_rflags, s) ELSE
            The({ IF stack_pointer.tag # "ok" THEN FailIn(stack_pointer, s) ELSE
                  [Done(write_reg_u64(
                          [s EXCEPT !.instruction_pointer = new_ip.val,
                                    !.rflags = new_rflags.val,
                                    !.cpl = AsI8(new_rflags.val[5])],
                          SP, stack_pointer.val))
                   EXCEPT !.val = "return"]
               : stack_pointer \in {ReadAbove(s, rsp, 24)} })
               : new_rflags \in {ReadAbove(s, rsp, 16)} })
               : new_ip \in {ReadAbove(s, rsp, 8)} })
      [] op = "JmpRel8" ->
            Done([s EXCEPT !.instruction_pointer =
                    WrappingAdd(@, SignExtend8(operand0))])
      [] op = "JmpRel32" ->
            Done([s EXCEPT !.instruction_pointer =
                    WrappingAdd(@, SignExtend32(operand0))])
      [] op = "MovReg8Imm"  -> Done(write_reg_u8(s, operand0, U64AsU8(operand1)))
      [] op = "MovReg16Imm" -> Done(write_reg_u16(s, operand0, U64AsU16(operand1)))
      [] op = "MovReg32Imm" -> Done(write_reg_u32(s, operand0, U64AsU32(operand1)))
      [] op = "MovReg64Imm" -> Done(write_reg_u64(s, operand0, operand1))
      [] op = "MovReg8RM" ->
            The({ IF got.tag # "ok" THEN FailIn(got, s)
                  ELSE Done(write_reg_u8(s, operand0, got.val))
                  : got \in {read_rm_u8(s, operand1)} })
      [] op = "MovReg16RM" ->
            The({ IF got.tag # "ok" THEN FailIn(got, s)
                  ELSE Done(write_reg_u16(s, operand0, got.val))
                  : got \in {read_rm_u16(s, operand1)} })
      [] op = "MovReg32RM" ->
            The({ IF got.tag # "ok" THEN FailIn(got, s)
                  ELSE Done(write_reg_u32(s, operand0, got.val))
                  : got \in {read_rm_u32(s, operand1)} })
      [] op = "MovReg64RM" ->
            The({ IF got.tag # "ok" THEN FailIn(got, s)
                  ELSE Done(write_reg_u64(s, operand0, got.val))
                  : got \in {read_rm_u64(s, operand1)} })
      [] op = "MovRM8Reg"  -> write_rm_u8(s, operand0, read_reg_u8(s, operand1))
      [] op = "MovRM16Reg" -> write_rm_u16(s, operand0, read_reg_u16(s, operand1))
      [] op = "MovRM32Reg" -> write_rm_u32(s, operand0, read_reg_u32(s, operand1))
      [] op = "MovRM64Reg" -> write_rm_u64(s, operand0, read_reg_u64(s, operand1))
      [] op = "Out8" ->
            IF Unprivileged(s) THEN Raise(GeneralProtection, s)
            ELSE Done(out_u8(s, PortOf(operand0), read_reg_u8(s, A)))
      [] op = "Out32" ->
            IF Unprivileged(s) THEN Raise(GeneralProtection, s)
            ELSE out_u32(s, PortOf(operand0), read_reg_u32(s, A))
      [] op = "PopReg16" ->
            The({ IF got.tag # "ok" THEN FailIn(got, s)
                  ELSE Done(write_reg_u16(
                                  write_reg_u64(s, SP, WrappingAdd(rsp, FromInt(2))),
                                  operand0, got.val))
                  : got \in {MmuReadU16(s, rsp)} })
      [] op = "PopReg64" ->
            The({ IF got.tag # "ok" THEN FailIn(got, s)
                  ELSE Done(write_reg_u64(
                                  write_reg_u64(s, SP, WrappingAdd(rsp, FromInt(2))),
                                  operand0, got.val))
                  : got \in {MmuReadU64(s, rsp)} })
      [] op = "PushReg16" ->
            MmuWriteU16(write_reg_u64(s, SP, WrappingSub(rsp, FromInt(2))),
                        WrappingSub(rsp, FromInt(2)), read_reg_u16(s, operand0))
      [] op = "PushReg64" ->
            MmuWriteU64(write_reg_u64(s, SP, WrappingSub(rsp, FromInt(8))),
                        WrappingSub(rsp, FromInt(8)), read_reg_u64(s, operand0))
      [] op = "Swi4" ->
            The({ IF got.tag # "ok" THEN FailIn(got, s)
                  ELSE Done(swi4(s, got.val))
                  : got \in {read_rm_u64(s, operand0)} })
      [] op = "Wrcr" ->
            The({ IF got.tag # "ok" THEN FailIn(got, s)
                  ELSE Done(s)
                  : got \in {read_rm_u64(s, operand1)} })

\* No instruction decoded
NoInstruction == [op |-> "None", operand0 |-> 0, operand1 |-> 0]

\* A variant of the try block that advances the instruction pointer after
\* a jump only
DecodedInPlace(s, d, stdin) ==
    IF d.tag # "ok"
    THEN [FailIn(d, s) EXCEPT !.val = [instruction |-> NoInstruction, size |-> 0]]
    ELSE The({ IF r.tag # "ok" THEN [r EXCEPT !.val = d.val]
               ELSE IF d.val.instruction.op \notin {"JmpRel8", "JmpRel32"}
               THEN [r EXCEPT !.val = d.val]
               ELSE [Done([r.st EXCEPT !.instruction_pointer =
                               WrappingAdd(@, FromInt(d.val.size))])
                     EXCEPT !.val = d.val]
               : r \in {Execute(s, d.val.instruction, stdin)} })

\* The try block of step_instruction after decode returned d: the `?` on
\* it, the match and the advance of the instruction pointer.  The result's
\* val is the instruction decoded and its size (NoInstruction when decode
\* failed).
Decoded(s, d, stdin) ==
    IF d.tag # "ok"
    THEN [FailIn(d, s) EXCEPT !.val = [instruction |-> NoInstruction, size |-> 0]]
    ELSE The({ IF r.tag # "ok" THEN [r EXCEPT !.val = d.val]
               ELSE IF r.val = "return" THEN [r EXCEPT !.val = d.val]
               ELSE [Done([r.st EXCEPT !.instruction_pointer =
                               WrappingAdd(@, FromInt(d.val.size))])
                     EXCEPT !.val = d.val]
               : r \in {Execute(s, d.val.instruction, stdin)} })

----------------------------------------------------------------------------
(* The machine as a state machine *)

\* The ProcessorState, its memory and its devices, as the operators take it
Self ==
    [registers |-> registers, cr2 |-> cr2, cpl |-> cpl,
     interupt_stack_pointer |-> interupt_stack_pointer, idt |-> idt,
     instruction_pointer |-> instruction_pointer, rflags |-> rflags,
     paging_table_address |-> paging_table_address, ranges |-> ranges,
     ports |-> ports, timer |-> timer, console |-> console]

\* The machine s becomes the state
Becomes(s) ==
    /\ registers' = s.registers
    /\ cr2' = s.cr2
    /\ cpl' = s.cpl
    /\ interupt_stack_pointer' = s.interupt_stack_pointer
    /\ idt' = s.idt
    /\ instruction_pointer' = s.instruction_pointer
    /\ rflags' = s.rflags
    /\ paging_table_address' = s.paging_table_address
    /\ ranges' = s.ranges
    /\ ports' = s.ports
    /\ timer' = s.timer
    /\ console' = s.console

NoInterrupt == [kind |-> "None", error_code |-> 0, cr2 |-> Zero64, irq |-> 0]

\* What `last` holds before any step
NoStep ==
    [kind |-> "none", pre |-> <<>>, polled |-> 0,
     instruction |-> NoInstruction, size |-> 0, raised |-> NoInterrupt,
     at_raise |-> <<>>, attempts |-> <<>>, entered |-> <<>>]

\* ProcessorState::new, MemoryManagementUnit::new, and the memory and devices
\* main() adds; the guest and the build are chosen here
Init ==
    /\ registers = [r \in 0..15 |-> Zero64]
    /\ cr2 = Zero64
    /\ cpl = 0
    /\ interupt_stack_pointer = Zero64
    /\ idt = Zero64
    /\ instruction_pointer = Zero64
    /\ rflags = Zero64
    /\ paging_table_address = Zero64
    /\ \E id \in Scenarios : ranges = MemoryConfig(id)
    /\ IRQ = 0
    /\ pc = "poll"
    /\ irq = 0
    /\ status = "running"
    /\ overflow_checks \in BOOLEAN
    /\ ports = PortConfig
    /\ timer = NewTimer
    /\ console = <<>>
    /\ last = NoStep

\* step_instruction, first statement: let irq = IRQ.load(Relaxed)
StepLoad ==
    /\ status = "running"
    /\ pc = "poll"
    /\ irq' = IRQ
    /\ pc' = "loaded"
    /\ UNCHANGED <<registers, cr2, cpl, interupt_stack_pointer, idt,
                   instruction_pointer, rflags, paging_table_address, ranges,
                   IRQ, status, overflow_checks, ports, timer, console, last>>

\* The bytes a console read can yield: a character, and 0xFF at the end of
\* the input
Stdin == {65, 255}

\* What the instruction d decodes to can read from a device
ReadsPort(d) == d.tag = "ok" /\ d.val.instruction.op \in {"In8", "In8D"}

\* step_instruction from IRQ.store(0, Relaxed) to its end: the IRQ loaded is
\* raised, or an instruction is decoded and executed, and an interrupt raised
\* on the way is entered by self.interrupt
StepFinish ==
    /\ status = "running"
    /\ pc = "loaded"
    /\ IRQ' = 0
    /\ pc' = "poll"
    /\ irq' = 0
    /\ \E d \in {IF irq # 0 THEN Err(IRQInterrupt(irq))
                 ELSE decode(Self, instruction_pointer)} :
           \E stdin \in IF ReadsPort(d) THEN Stdin ELSE {255} :
           \E r \in {Decoded(Self, d, stdin)} :
               \E e \in IF r.tag = "err" THEN Interrupt(r.st, r.int, <<>>)
                        ELSE {[st |-> r.st,
                               status |-> CASE r.tag = "ok" ->
                                                 IF r.st.timer.unreachable
                                                 THEN "panic" ELSE "running"
                                            [] r.tag = "panic" -> "panic"
                                            [] OTHER -> "fatal",
                               attempts |-> <<>>]} :
               /\ Becomes(e.st)
               /\ status' = e.status
               /\ last' = [kind |-> "step", pre |-> Self, polled |-> irq,
                           instruction |-> r.val.instruction, size |-> r.val.size,
                           raised |-> IF r.tag = "err" THEN r.int ELSE NoInterrupt,
                           at_raise |-> IF r.tag = "err" THEN r.st ELSE <<>>,
                           attempts |-> e.attempts,
                           entered |-> IF last.kind = "step"
                                          /\ last.raised.kind # "None"
                                          /\ status = "running"
                                       THEN <<last.at_raise>> ELSE <<>>]
    /\ UNCHANGED overflow_checks

\* A thread run_timer spawned wakes from its sleep and loads the mode; with
\* bit 0 clear it ends
TimerWake ==
    /\ status = "running"
    /\ timer.sleeping > 0
    /\ timer' = [timer EXCEPT !.sleeping = @ - 1,
                              !.firing = IF timer.mode % 2 = 1 THEN @ + 1 ELSE @]
    /\ UNCHANGED <<registers, cr2, cpl, interupt_stack_pointer, idt,
                   instruction_pointer, rflags, paging_table_address, ranges,
                   IRQ, pc, irq, status, overflow_checks, ports, console, last>>

\* The thread calls schedule_interrupt(irq), IRQ.store(irq, Relaxed), and
\* run_timer spawns the next thread
TimerSchedule ==
    /\ status = "running"
    /\ timer.firing > 0
    /\ timer.fired < MaxFires
    /\ IRQ' = timer.irq
    /\ timer' = [timer EXCEPT !.firing = @ - 1, !.sleeping = @ + 1,
                              !.fired = @ + 1]
    /\ UNCHANGED <<registers, cr2, cpl, interupt_stack_pointer, idt,
                   instruction_pointer, rflags, paging_table_address, ranges,
                   pc, irq, status, overflow_checks, ports, console, last>>

Next ==
    \/ StepLoad
    \/ StepFinish
    \/ TimerWake
    \/ TimerSchedule

Spec == Init /\ [][Next]_vars

----------------------------------------------------------------------------
(* The register file on its own: one write_reg_* call on a register file    *)
(* whose registers hold distinct values                                     *)

\* The values the registers start from, the register r holding v xor r
RegWords ==
    {Zero64,
     <<136, 119, 102, 85, 68, 51, 34, 17>>,
     <<255, 255, 255, 255, 255, 255, 255, 255>>}

\* The values written
WriteBytes  == {0, 90, 255}
WriteWords  == {<<0, 0>>, <<52, 18>>, <<255, 255>>}
WriteDwords == {<<0, 0, 0, 0>>, <<239, 190, 173, 222>>, <<255, 255, 255, 255>>}
WriteQwords == {Zero64, <<239, 190, 173, 222, 190, 186, 254, 202>>}

\* How many writes a behaviour makes at most
MaxWrites == 1

InitRegs ==
    /\ \E v \in RegWords : registers = [r \in 0..15 |-> XorW(v, U8AsU64(r))]
    /\ cr2 = Zero64
    /\ cpl = 0
    /\ interupt_stack_pointer = Zero64
    /\ idt = Zero64
    /\ instruction_pointer = Zero64
    /\ rflags = Zero64
    /\ paging_table_address = Zero64
    /\ ranges = MemoryConfig(<<0, "ok", "mov16">>)
    /\ IRQ = 0
    /\ pc = "poll"
    /\ irq = 0
    /\ status = "running"
    /\ overflow_checks \in BOOLEAN
    /\ ports = PortConfig
    /\ timer = NewTimer
    /\ console = <<>>
    /\ last = [kind |-> "none", reg |-> 0, pre |-> registers, writes |-> 0]

\* A call of one of write_reg_u8, .., write_reg_u64 that leaves the machine
\* `after`
WriteReg(kind, reg, value, after) ==
    /\ last.writes < MaxWrites
    /\ Becomes(after)
    /\ last' = [kind |-> kind, reg |-> reg, value |-> value, pre |-> registers,
                writes |-> last.writes + 1]
    /\ UNCHANGED <<IRQ, pc, irq, status, overflow_checks>>

WriteReg8  == \E reg \in 0..15, value \in WriteBytes :
                WriteReg("write_reg_u8", reg, value,
                         write_reg_u8(Self, reg, value))
WriteReg16 == \E reg \in 0..15, value \in WriteWords :
                WriteReg("write_reg_u16", reg, value,
                         write_reg_u16(Self, reg, value))
WriteReg32 == \E reg \in 0..15, value \in WriteDwords :
                WriteReg("write_reg_u32", reg, value,
                         write_reg_u32(Self, reg, value))
WriteReg64 == \E reg \in 0..15, value \in WriteQwords :
                WriteReg("write_reg_u64", reg, value,
                         write_reg_u64(Self, reg, value))

NextRegs == WriteReg8 \/ WriteReg16 \/ WriteReg32 \/ WriteReg64

SpecRegs == InitRegs /\ [][NextRegs]_vars

----------------------------------------------------------------------------
(* The decoder on its own: a byte stream at 600h, made of a legacy prefix   *)
(* repeated some times and a rest, is decoded, and the machine steps        *)
(* through it                                                               *)

\* The legacy prefix bytes of decode_internal's first match
LegacyPrefixes == {38, 46, 54, 62, 100, 101, 102, 103, 240, 242, 243}

\* How many times a stream repeats its prefix at most, and the length of the
\* one long run of prefixes
MaxRepeat == 3
LongRun == 15

\* The immediates of the streams `REX.W+B, B8+r, imm64`
Immediates ==
    {Zero64, <<9, 39, 0, 0, 0, 0, 0, 0>>, <<239, 190, 173, 222, 190, 186, 254, 202>>}

\* The streams [0x48|b, 0xB8+r, imm little-endian]
MovStreams ==
    {<<72 + b, 184 + r>> \o imm : b \in 0..1, r \in 0..7, imm \in Immediates}

\* The rests a prefix is put before: iret; in al, 10h; mov eax, 1234h (mov
\* ax, 1234h after 66h); mov rax, imm64; mov al, [4000h]; an undefined opcode
Rests ==
    {<<207>>, <<228, 16>>, <<184, 52, 18, 0, 0>>,
     <<72, 184, 136, 119, 102, 85, 68, 51, 34, 17>>,
     <<138, 4, 37, 0, 64, 0, 0>>, <<15>>}

\* The streams, as <<prefix, count, rest>>
Streams ==
    ({0} \X {0} \X (MovStreams \cup Rests))
    \cup (LegacyPrefixes \X (1..MaxRepeat) \X Rests)
    \cup ({102} \X {LongRun, LongRun - 1} \X {<<207>>})

\* The byte b, n times
RECURSIVE Repeat(_, _)
Repeat(b, n) == IF n = 0 THEN <<>> ELSE <<b>> \o Repeat(b, n - 1)

\* The memory whose ROM holds the bytes at 600h, followed by a jump to itself
StreamConfig(bytes) ==
    (<<0, 28672>> :> [kind |-> "ROM",
                      data |-> Place(16384 + 1536, bytes \o <<235, 254>>)
                               @@ Entry(0) @@ Idt("ok") @@ Frames @@ PageTables])
    @@ (<<32768, 40960>> :> [kind |-> "RAM", data |-> <<>>])

InitDecode ==
    /\ registers = [r \in 0..15 |-> Zero64]
    /\ cr2 = Zero64
    /\ cpl = 0
    /\ interupt_stack_pointer = Zero64
    /\ idt = Zero64
    /\ instruction_pointer = FromInt(1536)
    /\ rflags = Zero64
    /\ paging_table_address = Zero64
    /\ \E id \in Streams :
          /\ ranges = StreamConfig(Repeat(id[1], id[2]) \o id[3])
          /\ last = [kind |-> "stream", prefix |-> id[1], count |-> id[2],
                     rest |-> id[3]]
    /\ IRQ = 0
    /\ pc = "poll"
    /\ irq = 0
    /\ status = "running"
    /\ overflow_checks \in BOOLEAN
    /\ ports = PortConfig
    /\ timer = NewTimer
    /\ console = <<>>

\* decode(mmu, instruction_pointer) on the stream, and on the stream with
\* its prefix once
DecodeStream ==
    /\ last.kind = "stream"
    /\ last' = [kind |-> "decode", prefix |-> last.prefix, count |-> last.count,
                rest |-> last.rest,
                result |-> decode(Self, instruction_pointer),
                once |-> decode([Self EXCEPT !.ranges =
                                    StreamConfig(<<last.prefix>> \o last.rest)],
                                instruction_pointer)]
    /\ UNCHANGED <<registers, cr2, cpl, interupt_stack_pointer, idt,
                   instruction_pointer, rflags, paging_table_address, ranges,
                   IRQ, pc, irq, status, overflow_checks, ports, timer, console>>

NextDecode == DecodeStream \/ StepLoad \/ StepFinish

SpecDecode == InitDecode /\ [][NextDecode]_vars

----------------------------------------------------------------------------
(* The decoder and the operand address on their own: one instruction at     *)
(* 600h, built from an operand-size prefix, an address-size prefix, a REX   *)
(* byte, an opcode, a ModR/M byte and a SIB byte, is decoded, and the       *)
(* address of its memory operand is formed from a register file             *)

\* The bytes that follow the ModR/M and SIB bytes: displacement or immediate
Trailer == <<17, 34, 2, 0, 85, 102, 119, 136, 153>>

\* A byte if it is wanted
Opt(wanted, byte) == IF wanted THEN <<byte>> ELSE <<>>

\* The REX bytes: none (0), and some of 40h..4Fh
RexBytes == {0, 64, 65, 66, 68, 72, 76, 79}

\* The instructions of the dispatch slots: the prefixes, then the opcode and
\* a register-direct ModR/M byte
SlotOpcodes == {176, 184, 191, 228, 229, 230, 231, 236, 237, 136, 137, 138, 139, 254, 255}
SlotStreams ==
    {Opt(so, 102) \o Opt(rex # 0, rex) \o <<opcode, 193>> \o Trailer
       : so \in BOOLEAN, rex \in {0, 64, 72, 76}, opcode \in SlotOpcodes}

\* The instructions of the opcode-extension groups: every reg field, with a
\* register and with a memory operand
GroupStreams ==
    {Opt(rex # 0, rex) \o <<opcode, 64 * mode + 8 * reg + 3>> \o Trailer
       : rex \in RexBytes, opcode \in {254, 255, 63}, reg \in 0..7, mode \in {0, 3}}

\* The ModR/M and SIB bytes: every mode and rm field with two reg fields,
\* and for the forms with a SIB byte several of them
ModrmBytes == {64 * mode + 8 * reg + rm : mode \in 0..3, reg \in {0, 5}, rm \in 0..7}
SibBytes == {0, 5, 37, 101, 228, 253, 27}
HasSib(modrm) == modrm \div 64 # 3 /\ modrm % 8 = 4
\* mov r32, r/m32 with the ModR/M byte after the prefixes, and each SIB byte
\* if one follows
WithSib(prefixes, modrm) ==
    {prefixes \o <<139, modrm>> \o Opt(HasSib(modrm), sib) \o Trailer
       : sib \in IF HasSib(modrm) THEN SibBytes ELSE {0}}
ModrmStreams ==
    UNION {WithSib(Opt(rex # 0, rex), modrm)
             : rex \in {0, 65, 66, 68, 79}, modrm \in ModrmBytes}

\* The instructions whose memory operand's address is formed: with and
\* without the address-size prefix
AddressStreams ==
    UNION {WithSib(Opt(ao, 103) \o Opt(rex # 0, rex), modrm)
             : ao \in BOOLEAN, rex \in {0, 67}, modrm \in {3, 4, 5, 68, 129, 132}}

\* The register files the addresses are formed from: small values, and
\* values whose sums and shifts leave 64 bits
RegisterFiles ==
    {[r \in 0..15 |-> <<16 * r + 1, 16 + r, 0, 0, 0, 0, 0, 0>>],
     [r \in 0..15 |-> <<r, 128 + r, 3, 0, 0, 0, 0, 240 + r>>]}

\* The inputs: <<stream, register file>>
OperandInputs ==
    ((SlotStreams \cup GroupStreams \cup ModrmStreams)
        \X {[r \in 0..15 |-> Zero64]})
    \cup (AddressStreams \X RegisterFiles)

InitOperand ==
    /\ \E input \in OperandInputs :
          /\ registers = input[2]
          /\ ranges = StreamConfig(input[1])
          /\ last = [kind |-> "operand", rest |-> input[1]]
    /\ cr2 = Zero64
    /\ cpl = 0
    /\ interupt_stack_pointer = Zero64
    /\ idt = Zero64
    /\ instruction_pointer = FromInt(1536)
    /\ rflags = Zero64
    /\ paging_table_address = Zero64
    /\ IRQ = 0
    /\ pc = "poll"
    /\ irq = 0
    /\ status = "running"
    /\ overflow_checks \in BOOLEAN
    /\ ports = PortConfig
    /\ timer = NewTimer
    /\ console = <<>>

\* The ModR/M operand of an instruction that has one (<<>> when it has none)
RmOperand(instruction) ==
    CASE instruction.op \in {"IncRM8", "IncRM16", "IncRM32", "IncRM64", "Swi4",
                             "MovRM8Reg", "MovRM16Reg", "MovRM32Reg", "MovRM64Reg"}
            -> <<instruction.operand0>>
      [] instruction.op \in {"Wrcr", "MovReg8RM", "MovReg16RM", "MovReg32RM",
                             "MovReg64RM"}
            -> <<instruction.operand1>>
      [] OTHER -> <<>>

\* decode(mmu, instruction_pointer) on the stream, and the address read_rm
\* and write_rm form for its memory operand
DecodeOperand ==
    /\ last.kind = "operand"
    /\ \E d \in {decode(Self, instruction_pointer)} :
          last' = [kind |-> "decoded", rest |-> last.rest, result |-> d,
                   address |-> IF d.tag = "ok"
                                  /\ RmOperand(d.val.instruction) # <<>>
                                  /\ RmOperand(d.val.instruction)[1].form # "Reg"
                               THEN <<EffectiveAddress(Self,
                                          RmOperand(d.val.instruction)[1])>>
                               ELSE <<>>]
    /\ UNCHANGED <<registers, cr2, cpl, interupt_stack_pointer, idt,
                   instruction_pointer, rflags, paging_table_address, ranges,
                   IRQ, pc, irq, status, overflow_checks, ports, timer, console>>

NextOperand == DecodeOperand

SpecOperand == InitOperand /\ [][NextOperand]_vars

----------------------------------------------------------------------------
(* The executor on a stack instruction: the instruction is given as the     *)
(* decoder would hand it over, the machine being the guests' with their    *)
(* IDT and page tables                                                      *)

\* rsp at the top of the step: 1F00h and 1002h (RAM), 2008h (ROM), 0 (the
\* push goes to the last page, in RAM), 4004h and 4001h (the push crosses
\* into the page at 4000h, which is not present) and 5008h (no byte of the
\* push is present)
StackPointers ==
    {FromInt(7936), FromInt(4098), FromInt(8200), Zero64, FromInt(16388),
     FromInt(16385), FromInt(20488)}

\* The registers: rax and rcx hold two values, rsp is sp
StackRegisters(sp) ==
    [r \in 0..15 |->
        CASE r = A  -> <<136, 119, 102, 85, 68, 51, 34, 17>>
          [] r = 1  -> <<1, 2, 3, 4, 5, 6, 7, 8>>
          [] r = SP -> sp
          [] OTHER  -> Zero64]

\* The programs: a push of rax, rcx or rsp and the pop of the same width
\* into rax, rcx or rsp
StackPrograms ==
    { <<[op |-> w[1], operand0 |-> r, operand1 |-> 0],
        [op |-> w[2], operand0 |-> q, operand1 |-> 0]>>
      : w \in {<<"PushReg16", "PopReg16">>, <<"PushReg64", "PopReg64">>},
        r \in {A, 1, SP}, q \in {A, 1, SP} }

InitStack ==
    /\ \E sp \in StackPointers, program \in StackPrograms :
          /\ registers = StackRegisters(sp)
          /\ last = [kind |-> "stack", program |-> program, history |-> <<>>]
    /\ ranges = MemoryConfig(<<0, "ok", "ud">>)
    /\ cr2 = Zero64
    /\ cpl \in {0, 3}
    /\ interupt_stack_pointer = Zero64
    /\ idt = Zero64
    /\ instruction_pointer = FromInt(1536)
    /\ rflags = Zero64
    /\ paging_table_address = Zero64
    /\ IRQ = 0
    /\ pc = "poll"
    /\ irq = 0
    /\ status = "running"
    /\ overflow_checks \in BOOLEAN
    /\ ports = PortConfig
    /\ timer = NewTimer
    /\ console = <<>>

\* step_instruction from the match on the instruction to its end, for the
\* next instruction of the program (one byte long): it is executed, the
\* instruction pointer advanced, and an interrupt raised on the way is
\* entered by self.interrupt
ExecuteStack ==
    /\ status = "running"
    /\ "program" \in DOMAIN last
    /\ last.program # <<>>
    /\ \E d \in {Ok([instruction |-> Head(last.program), size |-> 1])} :
          \E r \in {Decoded(Self, d, 255)} :
             \E e \in IF r.tag = "err" THEN Interrupt(r.st, r.int, <<>>)
                      ELSE {[st |-> r.st,
                             status |-> CASE r.tag = "ok" -> "running"
                                          [] r.tag = "panic" -> "panic"
                                          [] OTHER -> "fatal",
                             attempts |-> <<>>]} :
                /\ Becomes(e.st)
                /\ status' = e.status
                /\ last' = [kind |-> "stack", program |-> Tail(last.program),
                            history |->
                               Append(last.history,
                                      [pre |-> Self,
                                       instruction |-> Head(last.program),
                                       raised |-> IF r.tag = "err" THEN r.int
                                                  ELSE NoInterrupt,
                                       at_raise |-> IF r.tag = "err" THEN r.st
                                                    ELSE <<>>,
                                       attempts |-> e.attempts])]
    /\ UNCHANGED <<IRQ, pc, irq, overflow_checks>>

NextStack == ExecuteStack

SpecStack == InitStack /\ [][NextStack]_vars

----------------------------------------------------------------------------
(* The MMU on its own: reads and writes of one virtual address, under       *)
(* several page-table hierarchies                                           *)

\* Identity paging of the first eleven pages: the tables at 0000-3FFF (ROM),
\* virtual page i on physical page i (0-6 ROM, 7 and 10 in no range, 8 and
\* 9 RAM)
IdentityTables ==
    Place(0, Pte(4096)) @@ Place(4096, Pte(8192)) @@ Place(8192, Pte(12288))
    @@ Place(12288, Pte(0) \o Pte(4096) \o Pte(8192) \o Pte(12288)
                    \o Pte(16384) \o Pte(20480) \o Pte(24576) \o Pte(28672)
                    \o Pte(32768) \o Pte(36864) \o Pte(40960))

\* Identity paging of the first nine pages only: page 8 (RAM) is the last
\* page present, page 9 is not
SparseTables ==
    Place(0, Pte(4096)) @@ Place(4096, Pte(8192)) @@ Place(8192, Pte(12288))
    @@ Place(12288, Pte(0) \o Pte(4096) \o Pte(8192) \o Pte(12288)
                    \o Pte(16384) \o Pte(20480) \o Pte(24576) \o Pte(28672)
                    \o Pte(32768))

\* The byte at offset `at` of a table whose entries have more bits set:
\* bits 1..11 ("low"), bit 63 ("nx") or bit 52 ("high")
Decorated(byte, at, bits) ==
    CASE bits = "low" /\ at % 8 = 0  -> OrByte(byte, 254)
      [] bits = "low" /\ at % 8 = 1  -> OrByte(byte, 15)
      [] bits = "nx" /\ at % 8 = 7   -> OrByte(byte, 128)
      [] bits = "high" /\ at % 8 = 6 -> OrByte(byte, 16)
      [] OTHER -> byte

\* The hierarchies: the guests' one, the same with more bits set in every
\* entry, and identity paging
Tables(kind) ==
    IF kind = "identity" THEN IdentityTables
    ELSE IF kind = "sparse" THEN SparseTables
    ELSE [at \in DOMAIN PageTables |-> Decorated(PageTables[at], at, kind)]

\* The memory: the tables in the ROM, with the data of Frames at 5000h
\* "unmapped" has the RAM alone, the tables' addresses being in no range,
\* and "empty" has no memory at all
TablesConfig(kind) ==
    CASE kind = "empty" -> <<>>
      [] kind = "unmapped" -> (<<32768, 40960>> :> [kind |-> "RAM", data |-> <<>>])
      [] OTHER ->
            (<<0, 28672>> :> [kind |-> "ROM", data |-> Tables(kind) @@ Frames])
            @@ (<<32768, 40960>> :> [kind |-> "RAM", data |-> <<>>])

\* The virtual addresses accessed under the guests' tables: 0, 1000h, 2000h,
\* 3000h, 3FFCh (the last bytes of the last page), 4000h, 2^21, 2^30, 2^39,
\* 2^47 and 2^63 (not canonical), FFFF_FFFF_FFFF_F000h and
\* FFFF_FFFF_FFFF_FFFCh
Addresses ==
    {Zero64, FromInt(4096), FromInt(8192), FromInt(12288), FromInt(16380),
     FromInt(16384), FromInt(2097152), FromInt(1073741824),
     <<0, 0, 0, 0, 0, 128, 0, 0>>, <<0, 0, 0, 0, 128, 0, 0, 0>>,
     <<0, 0, 0, 0, 0, 0, 0, 128>>,
     <<0, 240, 255, 255, 255, 255, 255, 255>>,
     <<252, 255, 255, 255, 255, 255, 255, 255>>}

\* Under the tables with more bits set: 1000h, 2000h and the top page
DecoratedAddresses ==
    {FromInt(4096), FromInt(8192), <<0, 240, 255, 255, 255, 255, 255, 255>>}

\* Under identity paging: 0 (ROM), 6FFCh (the end of the ROM), 7000h (no
\* range), 8000h and 8FFCh (RAM), 9FFCh (the end of the RAM), B000h (not
\* present) and 2^47 (not canonical)
IdentityAddresses ==
    {Zero64, FromInt(28668), FromInt(28672), FromInt(32768), FromInt(36860),
     FromInt(40956), FromInt(45056), <<0, 0, 0, 0, 0, 128, 0, 0>>}

\* Under the sparse tables: 6FFCh (ROM, then no range), 8FF9h .. 8FFFh (the
\* last bytes of the last page present, in RAM), 9000h (not present) and
\* 0000_7FFF_FFFF_FFFCh (the last bytes of the lower half)
SparseAddresses ==
    {FromInt(28668), FromInt(36857), FromInt(36860), FromInt(36861),
     FromInt(36862), FromInt(36863), FromInt(36864),
     <<252, 255, 255, 255, 255, 127, 0, 0>>}

\* With the tables in no range: 0, 8000h, 9FFCh, 12_3456_7FFCh,
\* 0000_7FFF_FFFF_FFF8h, FFFF_8000_0000_0000h, FFFF_FFFF_FFFF_FFF8h and
\* 2^47 (not canonical)
UnmappedAddresses ==
    {Zero64, FromInt(32768), FromInt(40956), <<252, 127, 86, 52, 18, 0, 0, 0>>,
     <<248, 255, 255, 255, 255, 127, 0, 0>>, <<0, 0, 0, 0, 0, 128, 255, 255>>,
     <<248, 255, 255, 255, 255, 255, 255, 255>>, <<0, 0, 0, 0, 0, 128, 0, 0>>}

\* The values written
Stored == {<<136, 119, 102, 85, 68, 51, 34, 17>>, <<1, 0, 0, 0, 0, 0, 0, 0>>}

\* The accesses: hierarchy, address and value
Accesses ==
    ({"guest"} \X Addresses \X {<<136, 119, 102, 85, 68, 51, 34, 17>>})
    \cup ({"low", "nx", "high"} \X DecoratedAddresses
          \X {<<136, 119, 102, 85, 68, 51, 34, 17>>})
    \cup ({"identity"} \X IdentityAddresses \X Stored)
    \cup ({"sparse"} \X SparseAddresses \X Stored)
    \cup ({"unmapped", "empty"} \X UnmappedAddresses
          \X {<<136, 119, 102, 85, 68, 51, 34, 17>>})

\* How many writes a behaviour makes at most
MaxMmuWrites == 1

InitMmu ==
    /\ registers = [r \in 0..15 |-> Zero64]
    /\ cr2 = Zero64
    /\ cpl = 0
    /\ interupt_stack_pointer = Zero64
    /\ idt = Zero64
    /\ instruction_pointer = Zero64
    /\ rflags = Zero64
    /\ paging_table_address = Zero64
    /\ \E access \in Accesses :
          /\ ranges = TablesConfig(access[1])
          /\ last = [kind |-> "none", tables |-> access[1], va |-> access[2],
                     value |-> access[3], writes |-> 0]
    /\ IRQ = 0
    /\ pc = "poll"
    /\ irq = 0
    /\ status = "running"
    /\ overflow_checks \in BOOLEAN
    /\ ports = PortConfig
    /\ timer = NewTimer
    /\ console = <<>>

\* The machine with the tables of the guests' hierarchy in its ROM
Undecorated(s) ==
    IF <<0, 28672>> \in DOMAIN s.ranges
    THEN [s EXCEPT !.ranges[<<0, 28672>>].data = PageTables @@ Frames]
    ELSE s

\* What an access leaves in `last`: its result, the translation of the
\* address, the translation under the undecorated tables, the memory
\* before and whether it follows a write_u64
Accessed(kind, result) ==
    [kind |-> kind, tables |-> last.tables, va |-> last.va, value |-> last.value,
     writes |-> last.writes + (IF kind \in {"read_u8", "read_u16", "read_u32",
                                            "read_u64"} THEN 0 ELSE 1),
     result |-> [tag |-> result.tag, val |-> result.val, int |-> result.int],
     at |-> translate(Self, last.va),
     twin |-> translate(Undecorated(Self), last.va),
     pre |-> ranges, fresh |-> (last.kind = "write_u64")]

\* A call of MemoryManagementUnit::read_u8, .., read_u64
MmuRead(kind, result) ==
    /\ "writes" \in DOMAIN last
    /\ "tables" \in DOMAIN last
    /\ status = "running"
    /\ last' = Accessed(kind, result)
    /\ status' = IF result.tag = "panic" THEN "panic" ELSE status
    /\ UNCHANGED <<registers, cr2, cpl, interupt_stack_pointer, idt,
                   instruction_pointer, rflags, paging_table_address, ranges,
                   IRQ, pc, irq, overflow_checks, ports, timer, console>>

MmuRead8  == MmuRead("read_u8", MmuReadU8(Self, last.va))
MmuRead16 == MmuRead("read_u16", MmuReadU16(Self, last.va))
MmuRead32 == MmuRead("read_u32", MmuReadU32(Self, last.va))
MmuRead64 == MmuRead("read_u64", MmuReadU64(Self, last.va))

\* A call of MemoryManagementUnit::write_u8, .., write_u64
MmuWrite(kind, result) ==
    /\ "writes" \in DOMAIN last
    /\ "tables" \in DOMAIN last
    /\ status = "running"
    /\ last.writes < MaxMmuWrites
    /\ last' = Accessed(kind, result)
    /\ ranges' = result.st.ranges
    /\ status' = IF result.tag = "panic" THEN "panic" ELSE status
    /\ UNCHANGED <<registers, cr2, cpl, interupt_stack_pointer, idt,
                   instruction_pointer, rflags, paging_table_address,
                   IRQ, pc, irq, overflow_checks, ports, timer, console>>

MmuWrite8  == MmuWrite("write_u8", MmuWriteU8(Self, last.va, U64AsU8(last.value)))
MmuWrite16 == MmuWrite("write_u16", MmuWriteU16(Self, last.va, U64AsU16(last.value)))
MmuWrite32 == MmuWrite("write_u32", MmuWriteU32(Self, last.va, U64AsU32(last.value)))
MmuWrite64 == MmuWrite("write_u64", MmuWriteU64(Self, last.va, last.value))

NextMmu ==
    \/ MmuRead8 \/ MmuRead16 \/ MmuRead32 \/ MmuRead64
    \/ MmuWrite8 \/ MmuWrite16 \/ MmuWrite32 \/ MmuWrite64

SpecMmu == InitMmu /\ [][NextMmu]_vars

----------------------------------------------------------------------------
(* The physical bus on its own: ranges added, bytes read and written        *)

\* The base and size of the ranges added: 0000-1FFF, 1000-2FFF, 2000-2FFF,
\* the empty range at 1800, 4000-4FFF, and a range that passes 2^64
Regions ==
    {<<Zero64, FromInt(8192)>>, <<FromInt(4096), FromInt(8192)>>,
     <<FromInt(8192), FromInt(4096)>>, <<FromInt(6144), Zero64>>,
     <<FromInt(16384), FromInt(4096)>>,
     <<<<0, 240, 255, 255, 255, 255, 255, 255>>, FromInt(8192)>>}

\* The file of a ROM
RomFile == <<17, 34, 51>>

\* ConventionalMemory::create and ReadOnlyMemory::create, which ends in
\* error::fatal when the file is longer than the size
NewBackend(kind, size) ==
    IF kind = "RAM" THEN Ok([kind |-> "RAM", data |-> <<>>])
    ELSE IF Len(RomFile) > ToInt(size) THEN FatalIn(<<>>)
    ELSE Ok([kind |-> "ROM", data |-> Place(0, RomFile)])

\* The physical addresses read and written
BusAddresses == {0, 2, 4095, 4096, 6143, 6144, 8191, 8192, 12288}

\* The byte written
BusByte == 165

\* How many ranges are added and how many bytes written at most
MaxRanges == 3
MaxBusWrites == 1

InitBus ==
    /\ registers = [r \in 0..15 |-> Zero64]
    /\ cr2 = Zero64
    /\ cpl = 0
    /\ interupt_stack_pointer = Zero64
    /\ idt = Zero64
    /\ instruction_pointer = Zero64
    /\ rflags = Zero64
    /\ paging_table_address = Zero64
    /\ ranges = <<>>
    /\ last = [kind |-> "bus", writes |-> 0]
    /\ IRQ = 0
    /\ pc = "poll"
    /\ irq = 0
    /\ status = "running"
    /\ overflow_checks \in BOOLEAN
    /\ ports = PortConfig
    /\ timer = NewTimer
    /\ console = <<>>

BusUnchanged ==
    UNCHANGED <<registers, cr2, cpl, interupt_stack_pointer, idt,
                instruction_pointer, rflags, paging_table_address,
                IRQ, pc, irq, overflow_checks, ports, timer, console>>

\* A call of PhysicalMemoryManagementUnit::add
BusAdd ==
    /\ "writes" \in DOMAIN last
    /\ "tables" \notin DOMAIN last
    /\ status = "running"
    /\ Cardinality(DOMAIN ranges) < MaxRanges
    /\ \E region \in Regions, kind \in {"RAM", "ROM"} :
         \E r \in {add(ranges, region[1], region[2], NewBackend(kind, region[2]))} :
            /\ ranges' = r.st
            /\ status' = IF r.tag = "fatal" THEN "fatal" ELSE status
            /\ last' = [kind |-> "add", writes |-> last.writes]
    /\ BusUnchanged

\* A call of PhysicalMemoryManagementUnit::read_u8
BusRead ==
    /\ "writes" \in DOMAIN last
    /\ "tables" \notin DOMAIN last
    /\ status = "running"
    /\ \E a \in BusAddresses :
          last' = [kind |-> "bus_read_u8", writes |-> last.writes, address |-> a,
                   result |-> PhysReadU8(ranges, FromInt(a))]
    /\ UNCHANGED <<ranges, status>>
    /\ BusUnchanged

\* A call of PhysicalMemoryManagementUnit::write_u8
BusWrite ==
    /\ "writes" \in DOMAIN last
    /\ "tables" \notin DOMAIN last
    /\ status = "running"
    /\ last.writes < MaxBusWrites
    /\ \E a \in BusAddresses :
          /\ ranges' = PhysWriteU8(ranges, FromInt(a), BusByte)
          /\ last' = [kind |-> "bus_write_u8", writes |-> last.writes + 1,
                      address |-> a, value |-> BusByte, pre |-> ranges]
    /\ UNCHANGED status
    /\ BusUnchanged

NextBus == BusAdd \/ BusRead \/ BusWrite

SpecBus == InitBus /\ [][NextBus]_vars

----------------------------------------------------------------------------
(* The port bus on its own: bytes read from and written to ports            *)

\* A port map with ports left out between the assigned ones: a console on
\* ports 0, 18 and FFFFh and a timer on 64, 65, 67 and 68
ScatteredPorts ==
    (0 :> <<"UTF8Console", 0>>) @@ (18 :> <<"UTF8Console", 1>>)
    @@ (65535 :> <<"UTF8Console", 2>>)
    @@ (64 :> <<"Timer", 0>>) @@ (65 :> <<"Timer", 1>>)
    @@ (67 :> <<"Timer", 2>>) @@ (68 :> <<"Timer", 3>>)

\* The ports addressed, FFFCh and FFFEh among them
PortsUsed == {16, 17, 64, 66, 65532, 65534}

\* The bytes written and read
PortBytes == <<65, 66, 67, 68>>
StdinBytes == {97, 255}

\* How many calls a behaviour makes at most
MaxPortCalls == 2

InitPorts ==
    /\ registers = [r \in 0..15 |-> Zero64]
    /\ cr2 = Zero64
    /\ cpl = 0
    /\ interupt_stack_pointer = Zero64
    /\ idt = Zero64
    /\ instruction_pointer = Zero64
    /\ rflags = Zero64
    /\ paging_table_address = Zero64
    /\ ranges = <<>>
    /\ last = [kind |-> "ports", calls |-> 0]
    /\ IRQ = 0
    /\ pc = "poll"
    /\ irq = 0
    /\ status = "running"
    /\ overflow_checks \in BOOLEAN
    /\ ports \in {PortConfig, ScatteredPorts}
    /\ timer = NewTimer
    /\ console = <<>>

PortsUnchanged ==
    UNCHANGED <<registers, cr2, cpl, interupt_stack_pointer, idt,
                instruction_pointer, rflags, paging_table_address, ranges,
                IRQ, pc, irq, overflow_checks, ports>>

\* A call may be made
PortCall ==
    /\ "calls" \in DOMAIN last
    /\ status = "running"
    /\ last.calls < MaxPortCalls

\* A call of PortDevices::in_u8
PortIn ==
    /\ PortCall
    /\ \E port \in PortsUsed, stdin \in StdinBytes :
          last' = [kind |-> "in_u8", calls |-> last.calls + 1, port |-> port,
                   stdin |-> IF port \in DOMAIN ports THEN stdin ELSE 255,
                   result |-> in_u8(Self, port, stdin)]
    /\ UNCHANGED <<status, timer, console>>
    /\ PortsUnchanged

\* A call of PortDevices::out_u8
PortOut8 ==
    /\ PortCall
    /\ \E port \in PortsUsed :
         \E s \in {out_u8(Self, port, PortBytes[1])} :
            /\ timer' = s.timer
            /\ console' = s.console
            /\ last' = [kind |-> "out_u8", calls |-> last.calls + 1,
                        port |-> port, pre |-> [timer |-> timer, console |-> console]]
    /\ UNCHANGED status
    /\ PortsUnchanged

\* A call of PortDevices::out_u32
PortOut32 ==
    /\ PortCall
    /\ \E port \in PortsUsed :
         \E r \in {out_u32(Self, port, PortBytes)} :
            /\ timer' = r.st.timer
            /\ console' = r.st.console
            /\ status' = IF r.tag = "panic" THEN "panic" ELSE status
            /\ last' = [kind |-> "out_u32", calls |-> last.calls + 1,
                        port |-> port, pre |-> [timer |-> timer, console |-> console]]
    /\ PortsUnchanged

NextPorts == PortIn \/ PortOut8 \/ PortOut32

SpecPorts == InitPorts /\ [][NextPorts]_vars

----------------------------------------------------------------------------
(* Properties of the poll of IRQ *)

\* C1: the poll of the pending-IRQ byte never erases a vector it does not
\* deliver: whenever a step clears a nonzero IRQ, the value cleared is the
\* one the step loaded (and raises as Interrupt::IRQ)
C1_PollErasesOnlyWhatItLoaded ==
    [][(IRQ # 0 /\ IRQ' = 0) => irq = IRQ]_vars

----------------------------------------------------------------------------
(* Properties of interrupt entry *)

\* The last step raised an interrupt and an entry for it succeeded
Entered == last.kind = "step" /\ last.raised.kind # "None" /\ status = "running"

\* The stack the entry chose, from the state the interrupt was raised in
NewSp ==
    IF last.at_raise.cpl <= 0 THEN last.at_raise.registers[SP]
    ELSE last.at_raise.interupt_stack_pointer

\* The vector and the error code of the entry that succeeded
EnteredVector == last.attempts[Len(last.attempts)]
EnteredError ==
    IF Len(last.attempts) = 1 /\ last.raised.kind = "PF"
    THEN last.raised.error_code ELSE 0

\* (C << 32) | F for the i8 C and the u64 F
SavedFlags(C, F) ==
    LET x == IF C < 0 THEN 255 ELSE 0
    IN  <<F[1], F[2], F[3], F[4], OrByte(F[5], (C + 256) % 256),
          OrByte(F[6], x), OrByte(F[7], x), OrByte(F[8], x)>>

\* The little-endian u64 the memory of machine s holds at new_sp - 8 k
Slot(s, k) == MmuReadU64(s, WrappingSub(NewSp, FromInt(8 * k)))

FrameHolds ==
    /\ Slot(Self, 1) = Ok(last.at_raise.registers[SP])
    /\ Slot(Self, 2) = Ok(SavedFlags(last.at_raise.cpl, last.at_raise.rflags))
    /\ Slot(Self, 3) = Ok(last.at_raise.instruction_pointer)
    /\ Slot(Self, 4) = Ok(FromInt(EnteredError))

EnteredStateHolds ==
    /\ registers[SP] = WrappingSub(NewSp, FromInt(32))
    /\ cpl = 0
    /\ Ok(instruction_pointer)
         = MmuReadU64(last.at_raise,
                      WrappingAdd(last.at_raise.idt, FromInt(16 * EnteredVector + 8)))

\* The virtual address is mapped to a byte of a RAM range
InRam(s, virtual_address) ==
    \E t \in {translate(s, virtual_address)} :
        /\ t.tag = "ok"
        /\ ToInt(t.val) # -1
        /\ \E k \in DOMAIN s.ranges :
              /\ k[1] <= ToInt(t.val)
              /\ ToInt(t.val) < k[2]
              /\ s.ranges[k].kind = "RAM"

\* The n bytes from virtual address a on are mapped to RAM
AllInRam(s, a, n) == \A k \in 0..(n - 1) : InRam(s, WrappingAdd(a, FromInt(k)))

\* C2 as stated: after a successful entry the four slots below new_sp hold
\* S, (C << 32) | F, R and E, rsp is new_sp - 32, CPL is 0 and RIP is the
\* entry's service routine
C2_FrameAfterEntry == Entered => (FrameHolds /\ EnteredStateHolds)

\* C2, for a frame in writable memory: after a successful entry whose 32
\* frame bytes below new_sp are mapped to RAM, the four slots hold
\* S, (C << 32) | F, R and E, rsp is new_sp - 32, CPL is 0 and RIP is the
\* entry's service routine
C2_FrameInRamAfterEntry ==
    (Entered /\ AllInRam(Self, WrappingSub(NewSp, FromInt(32)), 32))
        => (FrameHolds /\ EnteredStateHolds)

\* An entry from CPL 3 for GeneralProtection, onto the interrupt stack in RAM
C2_EnteredFromRing3 ==
    /\ Entered
    /\ last.attempts = <<13>>
    /\ last.at_raise.cpl = 3
    /\ AllInRam(Self, WrappingSub(NewSp, FromInt(32)), 32)
    /\ FrameHolds

\* C3: an IRET executed right after a successful entry from rsp = S,
\* CPL = C in 0..3, RIP = R, rflags = F (the frame in RAM) restores
\* rsp = S, CPL = C, RIP = R and rflags = F
C3_EntryThenIretRestores ==
    (/\ last.kind = "step"
     /\ last.instruction.op = "Iret"
     /\ last.raised.kind = "None"
     /\ status = "running"
     /\ Len(last.entered) = 1
     /\ last.entered[1].cpl \in 0..3
     /\ AllInRam(last.pre, last.pre.registers[SP], 32))
        => /\ registers[SP] = last.entered[1].registers[SP]
           /\ cpl = last.entered[1].cpl
           /\ instruction_pointer = last.entered[1].instruction_pointer
           /\ rflags = last.entered[1].rflags

\* C4: the CPL is one of 0, 1, 2, 3 in every reachable state
C4_CplInRings == cpl \in 0..3

\* The In and Out variants
PortInstructions ==
    {"In8", "In16", "In32", "In8D", "In16D", "In32D", "Out8", "Out16", "Out32"}

\* C5: an In or Out variant executed with CPL > 0 raises GeneralProtection
\* (vector 0Dh) with the registers, the instruction pointer and the devices
\* as they were before the step, and without the fatal exit
C5_PortsRaiseGeneralProtection ==
    (last.kind = "step" /\ last.instruction.op \in PortInstructions
        /\ last.pre.cpl > 0)
        => /\ last.raised.kind = "GP"
           /\ last.attempts[1] = 13
           /\ last.at_raise.registers = last.pre.registers
           /\ last.at_raise.instruction_pointer = last.pre.instruction_pointer
           /\ last.at_raise.console = last.pre.console
           /\ last.at_raise.timer = last.pre.timer
           /\ status # "fatal"

\* In16, which at CPL 0 is the fatal exit, raised GeneralProtection at CPL 3
C5_In16AtRing3 ==
    /\ last.kind = "step"
    /\ last.instruction.op = "In16"
    /\ last.pre.cpl = 3
    /\ last.raised.kind = "GP"

\* C6: Swi4 or Wrcr executed with CPL > 0 raises GeneralProtection and
\* leaves the page-table root as it was
C6_ControlRegistersNeedRing0 ==
    (last.kind = "step" /\ last.instruction.op \in {"Swi4", "Wrcr"}
        /\ last.pre.cpl > 0)
        => /\ last.raised.kind = "GP"
           /\ paging_table_address = last.pre.paging_table_address

\* C7: the delivery of an interrupt makes at most two entry attempts, the
\* second one for DoubleFault (vector 8) after a first one for another
\* interrupt, and ends in an established frame or in the triple-fault halt,
\* the halt only after a failed DoubleFault entry
C7_EscalationEnds ==
    (last.kind = "step" /\ last.raised.kind # "None")
        => /\ Len(last.attempts) \in {1, 2}
           /\ last.attempts[1] = Vector(last.raised)
           /\ Len(last.attempts) = 2
                => (last.attempts[2] = 8 /\ last.raised.kind # "DF")
           /\ status \in {"running", "triple_fault"}
           /\ status = "triple_fault" => EnteredVector = 8

----------------------------------------------------------------------------
(* Properties of the register writes *)

\* C8: write_reg_u16 of w to register r holding V leaves
\* (V & ~0xFFFF) | w in r
C8_Write16ReplacesLow16 ==
    last.kind = "write_reg_u16"
        => registers[last.reg]
             = <<last.value[1], last.value[2],
                 last.pre[last.reg][3], last.pre[last.reg][4],
                 last.pre[last.reg][5], last.pre[last.reg][6],
                 last.pre[last.reg][7], last.pre[last.reg][8]>>

\* C9: write_reg_u8 of b to register r holding V leaves (V & ~0xFF) | b in
\* r and leaves the other 15 registers unchanged
C9_Write8ReplacesLow8 ==
    last.kind = "write_reg_u8"
        => /\ registers[last.reg]
                = <<last.value,
                    last.pre[last.reg][2], last.pre[last.reg][3],
                    last.pre[last.reg][4], last.pre[last.reg][5],
                    last.pre[last.reg][6], last.pre[last.reg][7],
                    last.pre[last.reg][8]>>
           /\ \A r \in 0..15 : r # last.reg => registers[r] = last.pre[r]

\* A byte other than the low byte of r was written to r, whose upper seven
\* bytes are all nonzero
C9_Write8OverFullRegister ==
    /\ last.kind = "write_reg_u8"
    /\ last.value = 90
    /\ last.reg = 4
    /\ last.pre[4] = <<140, 119, 102, 85, 68, 51, 34, 17>>

\* C10: write_reg_u32 of d leaves d zero-extended to 64 bits in r, and
\* write_reg_u64 of q leaves q in r
C10_Write32ZeroExtendsWrite64Replaces ==
    /\ last.kind = "write_reg_u32"
          => registers[last.reg]
               = <<last.value[1], last.value[2], last.value[3], last.value[4],
                   0, 0, 0, 0>>
    /\ last.kind = "write_reg_u64" => registers[last.reg] = last.value

\* A dword was written to a register whose upper 32 bits were all ones
C10_Write32OverOnes ==
    /\ last.kind = "write_reg_u32"
    /\ last.value = <<239, 190, 173, 222>>
    /\ last.pre[last.reg][5] = 255
    /\ last.pre[last.reg][8] = 255

----------------------------------------------------------------------------
(* Properties of the decoder *)

\* C11: decode returns an instruction whose consumed byte count, prefixes
\* included, is at most 15, or surfaces Undefined, PageFault or
\* GeneralProtection
C11_DecodeWithin15Bytes ==
    last.kind = "decode"
        => \/ last.result.tag = "ok" /\ last.result.val.size <= 15
           \/ last.result.tag = "err"
                 /\ last.result.int.kind \in {"UD", "PF", "GP"}

\* C12: a legacy prefix repeated k >= 1 times before a rest decodes to the
\* instruction the prefix once decodes to, with k - 1 more bytes consumed
\* (and fails as the prefix once fails)
C12_RepeatedPrefixDecodesAsOnce ==
    (last.kind = "decode" /\ last.count >= 1)
        => IF last.once.tag = "ok"
           THEN /\ last.result.tag = "ok"
                /\ last.result.val.instruction = last.once.val.instruction
                /\ last.result.val.size = last.once.val.size + last.count - 1
           ELSE last.result = last.once

\* 66h three times before B8 34 12 decoded to MovReg16Imm in 6 bytes
C12_ThreeSizeOverrides ==
    /\ last.kind = "decode"
    /\ last.prefix = 102
    /\ last.count = 3
    /\ last.result.tag = "ok"
    /\ last.result.val.instruction.op = "MovReg16Imm"
    /\ last.result.val.size = 6

\* C13: the 10 bytes [0x48|b, 0xB8+r, imm] decode to MovReg64Imm with
\* register (b << 3) | r and the immediate imm, 10 bytes consumed, and the
\* step that executes them leaves imm in that register
C13_MovImm64 ==
    /\ (last.kind = "decode" /\ last.count = 0 /\ last.rest \in MovStreams)
          => last.result
               = Ok([instruction |->
                        [op |-> "MovReg64Imm",
                         operand0 |-> 8 * (last.rest[1] - 72) + (last.rest[2] - 184),
                         operand1 |-> SubSeq(last.rest, 3, 10)],
                     size |-> 10])
    /\ (last.kind = "step" /\ last.polled = 0)
          => \A bytes \in {MmuReadFrom(last.pre, last.pre.instruction_pointer,
                                       10, 0, <<>>)} :
                (/\ bytes.tag = "ok"
                 /\ bytes.val[1] \in {72, 73}
                 /\ bytes.val[2] \in 184..191)
                    => /\ last.instruction.op = "MovReg64Imm"
                       /\ last.instruction.operand0
                             = 8 * (bytes.val[1] - 72) + (bytes.val[2] - 184)
                       /\ last.size = 10
                       /\ last.raised.kind = "None"
                       /\ registers[last.instruction.operand0]
                             = SubSeq(bytes.val, 3, 10)

\* 49 BF imm was executed and left the immediate in r15
C13_MovToR15 ==
    /\ last.kind = "step"
    /\ last.instruction.op = "MovReg64Imm"
    /\ last.instruction.operand0 = 15
    /\ last.size = 10
    /\ registers[15] = <<239, 190, 173, 222, 190, 186, 254, 202>>

----------------------------------------------------------------------------
(* Properties of the MMU *)

\* An access of the MMU has been made
MmuAccessed == "twin" \in DOMAIN last

\* The machine before the last access
Before == [Self EXCEPT !.ranges = last.pre]

\* Bits 47..63 of va are neither all clear nor all set
NotCanonical(va) ==
    ~ \/ va[6] < 128 /\ va[7] = 0 /\ va[8] = 0
      \/ va[6] >= 128 /\ va[7] = 255 /\ va[8] = 255

\* C14: an access of a virtual address that is not canonical surfaces
\* GeneralProtection and leaves the memory as it was, whatever the tables
C14_NonCanonicalIsGeneralProtection ==
    (MmuAccessed /\ NotCanonical(last.va))
        => /\ last.result.tag = "err"
           /\ last.result.int = [kind |-> "GP", error_code |-> 0,
                                 cr2 |-> Zero64, irq |-> 0]
           /\ ranges = last.pre

\* A write_u64 of 0000_8000_0000_0000h has surfaced GeneralProtection
C14_WriteAboveLowerHalf ==
    /\ MmuAccessed
    /\ last.kind = "write_u64"
    /\ last.va = <<0, 0, 0, 0, 0, 128, 0, 0>>
    /\ last.tables = "identity"
    /\ last.result.tag = "err"
    /\ last.result.int.kind = "GP"

\* The walk for va meets an entry with bit 0 clear at one of the levels
\* from `level` on, the table of that level being at `table`
RECURSIVE AbsentFrom(_, _, _, _)
AbsentFrom(s, table, va, level) ==
    /\ level <= 4
    /\ \E r \in {PhysReadU64(s.ranges,
                     WrappingAdd(table, FromInt(8 * Field(va, 48 - 9 * level, 9))))} :
          /\ r.tag = "ok"
          /\ \/ r.val[1] % 2 = 0
             \/ AbsentFrom(s, <<0, r.val[2] - (r.val[2] % 16), r.val[3], r.val[4],
                                r.val[5], r.val[6], r.val[7], r.val[8] % 128>>,
                           va, level + 1)

\* C15: for a canonical va whose walk meets a non-present entry at one of
\* the four levels, translate surfaces PageFault with error code 0 and cr2
\* va, and so does an access of the byte at va
C15_NonPresentIsPageFault ==
    (MmuAccessed /\ ~NotCanonical(last.va)
        /\ AbsentFrom(Before, Before.paging_table_address, last.va, 1))
        => /\ last.at.tag = "err"
           /\ last.at.int = [kind |-> "PF", error_code |-> 0,
                             cr2 |-> last.va, irq |-> 0]
           /\ last.kind \in {"read_u8", "write_u8"}
                 => /\ last.result.tag = "err"
                    /\ last.result.int = last.at.int
                    /\ ranges = last.pre

\* A read_u8 of 4000_0000h, whose level-2 entry is not present, has
\* surfaced the page fault
C15_AbsentAtLevel2 ==
    /\ MmuAccessed
    /\ last.kind = "read_u8"
    /\ last.tables = "guest"
    /\ last.va = FromInt(1073741824)
    /\ last.result.tag = "err"
    /\ last.result.int.kind = "PF"

\* C16: a hierarchy whose entries differ from another's in bits 1..11 and
\* 52..63 only translates every address as the other does
C16_OtherBitsIgnored ==
    (MmuAccessed /\ last.tables \in {"low", "nx", "high"}) => last.at = last.twin

\* C17 as stated: with identity paging, a read_u64 of va that follows a
\* write_u64 of x to va returns x
C17_RoundTrip ==
    (MmuAccessed /\ last.kind = "read_u64" /\ last.fresh
        /\ last.tables = "identity")
        => (last.result.tag = "ok" /\ last.result.val = last.value)

\* C17, for writable memory: with identity paging, a read_u64 of va that
\* follows a write_u64 of x to va returns x when the eight bytes from va on
\* are mapped to RAM
C17_RoundTripInRam ==
    (MmuAccessed /\ last.kind = "read_u64" /\ last.fresh
        /\ last.tables = "identity" /\ AllInRam(Self, last.va, 8))
        => (last.result.tag = "ok" /\ last.result.val = last.value)

\* 1122_3344_5566_7788h has been written to and read from 8FFCh, across
\* the boundary of two pages of RAM
C17_AcrossTwoPages ==
    /\ MmuAccessed
    /\ last.kind = "read_u64"
    /\ last.fresh
    /\ last.tables = "identity"
    /\ last.va = FromInt(36860)
    /\ last.value = <<136, 119, 102, 85, 68, 51, 34, 17>>
    /\ last.result.tag = "ok"
    /\ last.result.val = last.value

----------------------------------------------------------------------------
(* Properties of the physical bus *)

\* The registered ranges that hold address a
Holding(rs, a) == {k \in DOMAIN rs : k[1] <= a /\ a < k[2]}

\* No address is in two of the ranges
PairwiseDisjoint(rs) ==
    \A k1, k2 \in DOMAIN rs :
        k1 # k2 => (k1[2] <= k1[1] \/ k2[2] <= k2[1]
                    \/ k1[2] <= k2[1] \/ k2[2] <= k1[1])

\* C18: while the process has not been terminated, the ranges registered
\* by the calls of add are pairwise disjoint
C18_RangesDisjoint ==
    (last.kind \in {"add", "bus_read_u8", "bus_write_u8"} /\ status # "fatal")
        => PairwiseDisjoint(ranges)

\* C19: with pairwise-disjoint ranges, read_u8(a) is the backend's byte at
\* a - begin of the range holding a and FFh when there is none; write_u8
\* stores the byte there when the range is RAM and changes nothing when it
\* is ROM or when there is none
C19_BusLookup ==
    /\ (last.kind = "bus_read_u8" /\ PairwiseDisjoint(ranges))
          => \/ Holding(ranges, last.address) = {} /\ last.result = 255
             \/ \E k \in Holding(ranges, last.address) :
                   last.result = BackendRead(ranges[k], last.address - k[1])
    /\ (last.kind = "bus_write_u8" /\ PairwiseDisjoint(last.pre))
          => \/ /\ \A k \in Holding(last.pre, last.address) :
                       last.pre[k].kind = "ROM"
                /\ ranges = last.pre
             \/ \E k \in Holding(last.pre, last.address) :
                   /\ last.pre[k].kind = "RAM"
                   /\ DOMAIN ranges = DOMAIN last.pre
                   /\ BackendRead(ranges[k], last.address - k[1]) = last.value
                   /\ \A k2 \in DOMAIN ranges \ {k} : ranges[k2] = last.pre[k2]

----------------------------------------------------------------------------
(* Properties of the port bus *)

\* The console and the timer after the byte has gone to the device of the
\* port, at the device's own port number, if the port is assigned
Dispatched(dev, port, byte) ==
    IF port \notin DOMAIN ports THEN dev
    ELSE IF ports[port][1] = "UTF8Console"
    THEN [dev EXCEPT !.console = Append(@, byte)]
    ELSE [dev EXCEPT !.timer = TimerOut(@, ports[port][2], byte)]

----------------------------------------------------------------------------
(* Properties of the instructions *)

\* A step has decoded and executed an instruction without an interrupt
Completed ==
    /\ last.kind = "step"
    /\ last.polled = 0
    /\ last.instruction.op # "None"
    /\ last.raised.kind = "None"
    /\ status = "running"

\* The two bytes at the instruction pointer before the step
FetchedTwo == MmuReadFrom(last.pre, last.pre.instruction_pointer, 2, 0, <<>>)

\* The relative of a jump, sign-extended from its highest byte
Relative(imm, n) ==
    [i \in 1..8 |-> IF i <= n THEN imm[i]
                    ELSE IF imm[n] >= 128 THEN 255 ELSE 0]

\* C21: JMP rel8 and JMP rel32 leave RIP at the jump's address plus the
\* bytes consumed plus the sign-extended relative, modulo 2^64, and EB FE
\* consumes two bytes and leaves RIP at the jump's address
C21_JumpRelative ==
    /\ (Completed /\ last.instruction.op \in {"JmpRel8", "JmpRel32"})
          => \E n \in {IF last.instruction.op = "JmpRel8" THEN 1 ELSE 4} :
                instruction_pointer
                  = AddC(AddC(last.pre.instruction_pointer, FromInt(last.size)).val,
                         Tup8(Relative(last.instruction.operand0, n))).val
    /\ (last.kind = "step" /\ last.polled = 0 /\ status = "running")
          => \A bytes \in {FetchedTwo} :
                (bytes.tag = "ok" /\ bytes.val = <<235, 254>>)
                   => /\ last.instruction.op = "JmpRel8"
                      /\ last.size = 2
                      /\ last.raised.kind = "None"
                      /\ instruction_pointer = last.pre.instruction_pointer

\* The jump E9 F7 FD FF FF at 604h has gone back to 400h
C21_JumpedBack ==
    /\ Completed
    /\ last.instruction.op = "JmpRel32"
    /\ last.pre.instruction_pointer = FromInt(1540)
    /\ last.size = 5
    /\ instruction_pointer = FromInt(1024)

\* The seven bytes at the instruction pointer before the step
FetchedSeven == MmuReadFrom(last.pre, last.pre.instruction_pointer, 7, 0, <<>>)

\* C22: 48 89 05 10 00 00 00 decodes to MovRM64Reg with rm = RipRel of
\* displacement 10h and reg 0, seven bytes consumed, and the step stores the
\* eight bytes of R[0] at the virtual address RIP + 7 + 10h, RIP being the
\* address of the instruction
C22_StoreRipRelative ==
    (last.kind = "step" /\ last.polled = 0 /\ status = "running")
        => \A bytes \in {FetchedSeven} :
              (bytes.tag = "ok" /\ bytes.val = <<72, 137, 5, 16, 0, 0, 0>>)
                 => /\ last.instruction.op = "MovRM64Reg"
                    /\ last.instruction.operand0.form = "RipRel"
                    /\ last.instruction.operand0.displacement = <<16, 0, 0, 0>>
                    /\ last.instruction.operand1 = 0
                    /\ last.size = 7
                    /\ \A stored \in {MmuReadU64(Self,
                              WrappingAdd(last.pre.instruction_pointer, FromInt(23)))} :
                          /\ stored.tag = "ok"
                          /\ stored.val = last.pre.registers[0]

\* C23: at CPL 0 with entry 0 of the root table not present, a step that
\* surfaces PageFault with cr2 = 0 sets CR2 to 0 and ends with the frame
\* written and RIP at the service routine of IDT entry 0Eh
C23_PageFaultAtZero ==
    (/\ last.kind = "step"
     /\ last.pre.cpl = 0
     /\ PhysReadU64(last.pre.ranges, last.pre.paging_table_address).val[1] % 2 = 0
     /\ last.raised.kind = "PF"
     /\ last.raised.cr2 = Zero64)
        => /\ cr2 = Zero64
           /\ status = "running"
           /\ last.attempts = <<14>>
           /\ EnteredStateHolds

\* v + 1 on the little-endian bytes v, modulo 256^Len(v)
RECURSIVE Successor(_)
Successor(v) ==
    IF v = <<>> THEN <<>>
    ELSE IF v[1] = 255 THEN <<0>> \o Successor(Tail(v))
    ELSE <<v[1] + 1>> \o Tail(v)

\* The bytes of an INC's operand
IncWidth ==
    CASE last.instruction.op = "IncRM8" -> 1
      [] last.instruction.op = "IncRM16" -> 2
      [] last.instruction.op = "IncRM32" -> 4
      [] OTHER -> 8

\* The register r holds v written over V by the rule of the width of v
NarrowWritten(r, v, V) ==
    registers[r] = IF Len(v) = 4 THEN v \o <<0, 0, 0, 0>>
                   ELSE v \o SubSeq(V, Len(v) + 1, 8)

\* C24: INC of an operand of N bits stores (v + 1) mod 2^N in it, by the
\* narrow-write rules when it is a register, leaves RFLAGS as it was and
\* advances RIP by the bytes consumed
C24_Increment ==
    (Completed /\ last.instruction.op \in {"IncRM8", "IncRM16", "IncRM32", "IncRM64"})
        => /\ rflags = last.pre.rflags
           /\ instruction_pointer
                = WrappingAdd(last.pre.instruction_pointer, FromInt(last.size))
           /\ \A rm \in {last.instruction.operand0} :
                IF rm.form = "Reg"
                THEN /\ NarrowWritten(rm.reg,
                          Successor(SubSeq(last.pre.registers[rm.reg], 1, IncWidth)),
                          last.pre.registers[rm.reg])
                     /\ \A r \in 0..15 \ {rm.reg} :
                           registers[r] = last.pre.registers[r]
                ELSE \A a \in {EffectiveAddress(last.pre, rm).val} :
                       AllInRam(last.pre, a, IncWidth)
                          => MmuReadFrom(Self, a, IncWidth, 0, <<>>).val
                               = Successor(MmuReadFrom(last.pre, a, IncWidth,
                                                       0, <<>>).val)

\* C25: no step that begins with CPL > 0 escalates privilege: afterwards the
\* CPL is what it was or, when the step ended in interrupt entry, it is 0
\* with RIP at the service routine of the entry's IDT entry; no instruction
\* executed at CPL > 0, IRET included, lowers the CPL
C25_NoPrivilegeEscalation ==
    (last.kind = "step" /\ last.pre.cpl > 0)
        => \/ cpl = last.pre.cpl
           \/ Entered /\ EnteredStateHolds

\* C26: an interrupt taken while CPL = 0, followed by the IRET of its
\* handler (the frame in RAM), returns to CPL = 0
C26_IretReturnsToRing0 ==
    (/\ Completed
     /\ last.instruction.op = "Iret"
     /\ Len(last.entered) = 1
     /\ last.entered[1].cpl = 0
     /\ AllInRam(last.pre, last.pre.registers[SP], 32))
        => cpl = 0

----------------------------------------------------------------------------
(* Properties of the step *)

\* The step that ends here began with the vector n loaded from the
\* pending-IRQ byte
Polled(n) == last.kind = "step" /\ last.polled = n

\* What a step that polled n # 0 has done when it is over
DeliveredIrq(n) ==
    /\ last.instruction = NoInstruction
    /\ last.size = 0
    /\ last.at_raise = last.pre
    /\ last.raised = IRQInterrupt(n)
    /\ last.attempts[1] = n
    /\ (Entered /\ Len(last.attempts) = 1)
          => /\ EnteredStateHolds
             /\ AllInRam(Self, WrappingSub(NewSp, FromInt(32)), 32)
                   => /\ Slot(Self, 3) = Ok(last.pre.instruction_pointer)
                      /\ Slot(Self, 4) = Ok(Zero64)

Jumps == {"Iret", "JmpRel8", "JmpRel32"}

\* C28: a step that completes an instruction other than IRET and JMP
\* without an interrupt changes RIP to (RIP + consumed) mod 2^64; a step
\* that raises an interrupt has not advanced RIP when the entry begins, so
\* the saved RIP is the address of the instruction that faulted
C28_RipDiscipline ==
    /\ (Completed /\ last.instruction.op \notin Jumps)
          => instruction_pointer
               = WrappingAdd(last.pre.instruction_pointer, FromInt(last.size))
    /\ (last.kind = "step" /\ last.raised.kind # "None")
          => /\ last.at_raise.instruction_pointer = last.pre.instruction_pointer
             /\ (Entered /\ AllInRam(Self, WrappingSub(NewSp, FromInt(32)), 32))
                   => Slot(Self, 3) = Ok(last.pre.instruction_pointer)

\* An instruction in the last two bytes of the address space completed and
\* RIP wrapped to 0
C28_WrappedToZero ==
    /\ Completed
    /\ last.instruction.op = "IncRM8"
    /\ last.pre.instruction_pointer = <<254, 255, 255, 255, 255, 255, 255, 255>>
    /\ last.size = 2
    /\ instruction_pointer = Zero64

\* A page fault on a load was entered with the address of the load saved
C28_FaultingRipSaved ==
    /\ Entered
    /\ last.raised.kind = "PF"
    /\ last.size > 0
    /\ last.instruction.op = "MovReg8RM"
    /\ AllInRam(Self, WrappingSub(NewSp, FromInt(32)), 32)
    /\ Slot(Self, 3) = Ok(last.pre.instruction_pointer)

\* RIP, rsp, CPL and rflags are those of the state the interrupt was raised in
ContextKept ==
    /\ instruction_pointer = last.at_raise.instruction_pointer
    /\ registers[SP] = last.at_raise.registers[SP]
    /\ cpl = last.at_raise.cpl
    /\ rflags = last.at_raise.rflags

\* C29: an entry attempt that fails (the IDT entry cannot be read, is not
\* present or has rpl < CPL, or a push of the frame faults) leaves RIP, rsp,
\* CPL and rflags as they were: the DoubleFault entry that follows builds its
\* frame (in RAM) from the context the interrupt was raised in, and when the
\* DoubleFault attempt fails too the context is still that one
C29_FailedAttemptKeepsContext ==
    (last.kind = "step" /\ Len(last.attempts) = 2)
        => /\ status = "triple_fault" => ContextKept
           /\ (status = "running"
                 /\ AllInRam(Self, WrappingSub(NewSp, FromInt(32)), 32))
                 => (FrameHolds /\ EnteredStateHolds)

\* GeneralProtection raised at CPL 3 failed to enter and DoubleFault was
\* entered with the frame in RAM
C29_DoubleFaultFromRing3 ==
    /\ Entered
    /\ last.attempts = <<13, 8>>
    /\ last.at_raise.cpl = 3
    /\ AllInRam(Self, WrappingSub(NewSp, FromInt(32)), 32)
    /\ Slot(Self, 3) = Ok(last.at_raise.instruction_pointer)
    /\ cpl = 0

\* Undefined raised at CPL 0 with rsp 16 bytes above an unmapped page: the
\* third push of each attempt faulted, after the first two had been written
C29_PushFaulted ==
    /\ last.kind = "step"
    /\ last.attempts = <<6, 8>>
    /\ status = "triple_fault"
    /\ last.at_raise.cpl = 0
    /\ Slot(Self, 1) = Ok(last.at_raise.registers[SP])
    /\ Slot(Self, 3).tag = "err"
    /\ ContextKept

----------------------------------------------------------------------------
(* Properties of the page walk *)

\* entry & 0x7FFF_FFFF_FFFF_F000
FrameOf(entry) ==
    <<0, entry[2] - (entry[2] % 16), entry[3], entry[4], entry[5], entry[6],
      entry[7], entry[8] % 128>>

\* The entry of level i of the walk of va in machine s, read at
\* base_i + 8 * ((va >> (48 - 9 i)) & 0x1FF), where base_1 is the root and
\* base_(i+1) is the frame of the entry of level i
RECURSIVE WalkEntry(_, _, _)
WalkEntry(s, va, i) ==
    PhysReadU64(s.ranges,
                WrappingAdd(IF i = 1 THEN s.paging_table_address
                            ELSE FrameOf(WalkEntry(s, va, i - 1)),
                            FromInt(8 * Field(va, 48 - 9 * i, 9)))).val

\* The addresses the walk is looked at for
WalkProbes ==
    {Zero64, FromInt(4660), FromInt(12287), FromInt(12296), FromInt(16384),
     <<35, 241, 255, 255, 255, 255, 255, 255>>,
     <<0, 240, 255, 255, 255, 127, 0, 0>>,
     <<0, 0, 0, 0, 0, 128, 0, 0>>}

\* The walk of va in the reachable state finds four present entries
WalkPresent(va) ==
    /\ ~NotCanonical(va)
    /\ \A i \in 1..4 : WalkEntry(Self, va, i)[1] % 2 = 1

\* C30: for a canonical va whose four walk entries are present, translate
\* returns f4 + (va & 0xFFF); the walk starts at the root, which is 0 at
\* reset and then the value the last SWI4 set
C30_Walk ==
    /\ \A va \in WalkProbes :
          WalkPresent(va)
             => translate(Self, va)
                  = Ok(WrappingAdd(FrameOf(WalkEntry(Self, va, 4)),
                                   FromInt(Field(va, 0, 12))))
    /\ last.kind = "none" => paging_table_address = Zero64
    /\ last.kind = "step"
          => paging_table_address
               = IF Completed /\ last.instruction.op = "Swi4"
                 THEN read_rm_u64(last.pre, last.instruction.operand0).val
                 ELSE last.pre.paging_table_address

\* After SWI4 set the root to 5000h the last page is found through it, and
\* address 0 no longer is
C30_WalkThroughNewRoot ==
    /\ Completed
    /\ last.instruction.op = "Swi4"
    /\ paging_table_address = FromInt(20480)
    /\ WalkPresent(<<35, 241, 255, 255, 255, 255, 255, 255>>)
    /\ translate(Self, <<35, 241, 255, 255, 255, 255, 255, 255>>)
         = Ok(FromInt(36864 + 291))
    /\ ~WalkPresent(Zero64)

\* The walk through the second root, whose entry 0 has bits 1..11 and 63 set
C30_WalkThroughDecoratedRoot ==
    /\ paging_table_address = FromInt(24576)
    /\ WalkEntry(Self, FromInt(4660), 1) = <<255, 31, 0, 0, 0, 0, 0, 128>>
    /\ WalkPresent(FromInt(4660))
    /\ translate(Self, FromInt(4660)) = Ok(FromInt(32768 + 564))

----------------------------------------------------------------------------
(* Properties of the decoder's dispatch and of the operand forms *)

\* The stream of the last decode without its leading 66h and 67h prefixes,
\* and whether one of them is 66h, or 67h
RECURSIVE Unprefixed(_)
Unprefixed(bytes) ==
    IF bytes[1] \in {102, 103} THEN Unprefixed(Tail(bytes)) ELSE bytes
HasPrefix(byte) ==
    \E k \in 1..(Len(last.rest) - Len(Unprefixed(last.rest))) : last.rest[k] = byte

\* The REX byte of the stream (0 when it has none), its bits, and the
\* stream from the opcode on
RexByte == IF Unprefixed(last.rest)[1] \in 64..79 THEN Unprefixed(last.rest)[1] ELSE 0
RexBit(k) == (RexByte \div (2 ^ k)) % 2
FromOpcode ==
    IF RexByte = 0 THEN Unprefixed(last.rest) ELSE Tail(Unprefixed(last.rest))

\* The bytes before the opcode
PrefixBytes == Len(last.rest) - Len(FromOpcode)

\* The variants of the dispatch slot of an opcode byte, as
\* <<wide, so, unmodified>> ("" for none)
Variants(opcode) ==
    CASE opcode \in 176..183 -> <<"", "", "MovReg8Imm">>
      [] opcode \in 184..191 -> <<"MovReg64Imm", "MovReg16Imm", "MovReg32Imm">>
      [] opcode = 228 -> <<"", "", "In8">>
      [] opcode = 229 -> <<"", "In16", "In32">>
      [] opcode = 230 -> <<"", "", "Out8">>
      [] opcode = 231 -> <<"", "Out16", "Out32">>
      [] opcode = 236 -> <<"", "", "In8D">>
      [] opcode = 237 -> <<"", "In16D", "In32D">>
      [] opcode = 136 -> <<"", "", "MovRM8Reg">>
      [] opcode = 137 -> <<"MovRM64Reg", "MovRM16Reg", "MovRM32Reg">>
      [] opcode = 138 -> <<"", "", "MovReg8RM">>
      [] opcode = 139 -> <<"MovReg64RM", "MovReg16RM", "MovReg32RM">>
      [] opcode = 254 -> <<"", "", "IncRM8">>
      [] opcode = 255 -> <<"IncRM64", "IncRM16", "IncRM32">>

\* The variant the precedence rule names
Chosen(v) ==
    IF RexBit(3) = 1 /\ v[1] # "" THEN v[1]
    ELSE IF HasPrefix(102) /\ v[2] # "" THEN v[2]
    ELSE v[3]

\* The bytes of the immediate of a variant
ImmediateOf(name) ==
    CASE name \in {"MovReg8Imm", "In8", "In16", "In32", "Out8", "Out16", "Out32"} -> 1
      [] name = "MovReg16Imm" -> 2
      [] name = "MovReg32Imm" -> 4
      [] name = "MovReg64Imm" -> 8
      [] OTHER -> 0

\* C31: within a dispatch slot the wide variant is chosen when REX.W is set
\* and the slot has one, even with the 66h prefix; otherwise the so variant
\* when 66h is present and the slot has one; otherwise the unmodified
\* variant; and the immediate read is the chosen variant's.  The slot of a
\* group opcode (FE, FF) is looked at when the decoder reaches it.
C31_VariantPrecedence ==
    (last.kind = "decoded" /\ last.rest \in SlotStreams
        /\ (FromOpcode[1] >= 254 => last.result.tag = "ok"))
        => /\ last.result.tag = "ok"
           /\ last.result.val.instruction.op = Chosen(Variants(FromOpcode[1]))
           /\ FromOpcode[1] < 254 /\ FromOpcode[1] \notin 136..139
                 => last.result.val.size
                      = PrefixBytes + 1 + ImmediateOf(Chosen(Variants(FromOpcode[1])))

\* 66 48 B8 was decoded to MovReg64Imm, 11 bytes
C31_WideOverSizeOverride ==
    /\ last.kind = "decoded"
    /\ SubSeq(last.rest, 1, 3) = <<102, 72, 184>>
    /\ last.result.tag = "ok"
    /\ last.result.val.instruction.op = "MovReg64Imm"
    /\ last.result.val.size = 11

\* The 3-bit reg field of the ModR/M byte of the stream
RegField == (FromOpcode[2] \div 8) % 8

\* The members of the opcode-extension groups: the variants a reg field
\* selects ({} for none)
GroupMember(opcode, reg) ==
    CASE opcode = 254 /\ reg = 0 -> {"IncRM8"}
      [] opcode = 255 /\ reg = 0 -> {"IncRM16", "IncRM32", "IncRM64"}
      [] opcode = 63 /\ reg = 0 -> {"Wrcr"}
      [] opcode = 63 /\ reg = 1 -> {"Swi4"}
      [] OTHER -> {}

\* C32: in the groups FE, FF and 3F the member is selected by the 3-bit reg
\* field of the ModR/M byte alone, whatever the REX byte (REX.R included):
\* FE and FF with reg 0 decode to an IncRM variant, 3F with reg 0 and 1 to
\* Wrcr and Swi4, and every other reg value surfaces Undefined
C32_GroupByRegField ==
    (last.kind = "decoded" /\ last.rest \in GroupStreams)
        => IF GroupMember(FromOpcode[1], RegField) = {}
           THEN last.result.tag = "err" /\ last.result.int = Undefined
           ELSE /\ last.result.tag = "ok"
                /\ last.result.val.instruction.op
                      \in GroupMember(FromOpcode[1], RegField)

\* The fields of the ModR/M byte of the stream, its SIB byte when the form
\* has one, and the bytes after them
Mode == FromOpcode[2] \div 64
RmField == FromOpcode[2] % 8
SibFollows == Mode # 3 /\ RmField = 4
SibByte == FromOpcode[3]
AfterForm == SubSeq(FromOpcode, IF SibFollows THEN 4 ELSE 3, Len(FromOpcode))

\* The displacement bytes the form table gives the stream
DisplacementSize ==
    CASE Mode = 3 -> 0
      [] Mode = 0 -> IF RmField = 5 \/ (SibFollows /\ SibByte % 8 = 5) THEN 4 ELSE 0
      [] Mode = 1 -> 1
      [] Mode = 2 -> 4

\* The displacement as a u32
DisplacementRead ==
    [k \in 1..4 |-> IF k <= DisplacementSize THEN AfterForm[k] ELSE 0]

\* The operand the form table gives the stream
FormOperand ==
    IF Mode = 3 THEN RMReg(RmField + 8 * RexBit(0))
    ELSE IF Mode = 0 /\ RmField = 5
    THEN RMRipRel(DisplacementRead, HasPrefix(103))
    ELSE IF SibFollows
    THEN RMMem(((SibByte \div 8) % 8) + 8 * RexBit(1), SibByte \div 64,
               IF Mode = 0 /\ SibByte % 8 = 5 THEN 255
               ELSE (SibByte % 8) + 8 * RexBit(0),
               DisplacementRead, HasPrefix(103), "None")
    ELSE RMMem(4, 0, RmField + 8 * RexBit(0), DisplacementRead,
               HasPrefix(103), "None")

\* C33: the ModR/M and SIB bytes are parsed by the form table, for every
\* ModR/M byte, SIB byte and REX byte: register-direct for mod 11, RipRel for
\* mod 00 rm 5, a SIB byte for rm 4 (with a 4-byte displacement and no base
\* iff mod is 00 and the SIB base field is 5), a 1-byte displacement for
\* mod 01 and a 4-byte one for mod 10, index 4 and base rm + 8 REX.B without
\* a SIB byte; 1 + (1 if SIB) + displacement size bytes are consumed
C33_FormTable ==
    (last.kind = "decoded" /\ FromOpcode[1] = 139)
        => /\ last.result.tag = "ok"
           /\ last.result.val.instruction.operand0 = RegField + 8 * RexBit(2)
           /\ last.result.val.instruction.operand1 = FormOperand
           /\ last.result.val.size
                = PrefixBytes + 1 + 1 + (IF SibFollows THEN 1 ELSE 0)
                    + DisplacementSize

\* 47 8B 04 25 (mod 00, rm 4, SIB with base field 5) was decoded: no base,
\* index 12, a 4-byte displacement, 8 bytes
C33_SibWithoutBase ==
    /\ last.kind = "decoded"
    /\ SubSeq(last.rest, 1, 4) = <<79, 139, 4, 37>>
    /\ last.result.tag = "ok"
    /\ last.result.val.instruction.operand1
         = RMMem(12, 0, 255, <<17, 34, 2, 0>>, FALSE, "None")
    /\ last.result.val.size = 8

\* The memory operand of the instruction decoded from the stream
MemoryOperand == RmOperand(last.result.val.instruction)[1]

\* w << k on 64 bits
RECURSIVE ShiftedLeft(_, _)
ShiftedLeft(w, k) == IF k = 0 THEN w ELSE ShiftedLeft(WrappingAdd(w, w), k - 1)

\* base_val + (index_val << scale) + displacement on 64 bits, for the operand
\* rm and the registers R
AddressSum(rm, R) ==
    WrappingAdd(WrappingAdd(IF rm.base = 255 THEN Zero64 ELSE R[rm.base],
                            ShiftedLeft(IF rm.index = 4 THEN Zero64 ELSE R[rm.index],
                                        rm.scale)),
                <<rm.displacement[1], rm.displacement[2], rm.displacement[3],
                  rm.displacement[4], 0, 0, 0, 0>>)

\* ea & 0xFFFF
Low16(ea) == <<ea[1], ea[2], 0, 0, 0, 0, 0, 0>>

\* C34: the address read_rm and write_rm use for a Mem operand is
\* base_val + (index_val << scale) + displacement, base_val being 0 for
\* base 0xFF and index_val 0 for index 4, the displacement zero-extended from
\* 32 bits, and the whole sum truncated to 16 bits under address_override
C34_EffectiveAddress ==
    (/\ last.kind = "decoded"
     /\ last.address # <<>>
     /\ MemoryOperand.form = "Mem")
        => last.address[1]
             = Ok(IF MemoryOperand.address_override
                  THEN Low16(AddressSum(MemoryOperand, registers))
                  ELSE AddressSum(MemoryOperand, registers))

\* C35: for a RipRel operand with address_override the address is
\* (RIP + displacement) & 0xFFFF, the sum formed first and then truncated,
\* so it is below 10000h (RIP being the instruction pointer the sum is
\* formed with)
C35_RipRelTruncated ==
    (/\ last.kind = "decoded"
     /\ last.address # <<>>
     /\ MemoryOperand.form = "RipRel"
     /\ MemoryOperand.address_override)
        => /\ last.address[1].tag = "ok"
           /\ last.address[1].val
                = Low16(WrappingAdd(instruction_pointer,
                                    <<MemoryOperand.displacement[1],
                                      MemoryOperand.displacement[2],
                                      MemoryOperand.displacement[3],
                                      MemoryOperand.displacement[4], 0, 0, 0, 0>>))
           /\ SubSeq(last.address[1].val, 3, 8) = <<0, 0, 0, 0, 0, 0>>

----------------------------------------------------------------------------
(* Properties of the multi-byte accesses and of walks through unmapped     *)
(* tables                                                                   *)

\* The bytes the last write was given
WrittenBytes ==
    CASE last.kind = "write_u8"  -> <<last.value[1]>>
      [] last.kind = "write_u16" -> U64AsU16(last.value)
      [] last.kind = "write_u32" -> U64AsU32(last.value)
      [] OTHER -> last.value

\* How many bytes the last access spans
AccessWidth ==
    CASE last.kind \in {"read_u8", "write_u8"}   -> 1
      [] last.kind \in {"read_u16", "write_u16"} -> 2
      [] last.kind \in {"read_u32", "write_u32"} -> 4
      [] OTHER -> 8

\* The address of byte i of the last access
ByteAddress(i) == WrappingAdd(last.va, FromInt(i))

\* The translation of byte i of the last access, in the memory before it
ByteTranslation(i) == translate(Before, ByteAddress(i))

\* The first byte of the last access whose translation fails; the width of
\* the access when every byte translates
FailingByte ==
    IF \A i \in 0..(AccessWidth - 1) : ByteTranslation(i).tag = "ok"
    THEN AccessWidth
    ELSE CHOOSE k \in 0..(AccessWidth - 1) :
            /\ ByteTranslation(k).tag # "ok"
            /\ \A i \in 0..(k - 1) : ByteTranslation(i).tag = "ok"

\* The memory rs after the bus has been given bytes i..k-1 of the last write
RECURSIVE StoredFrom(_, _, _)
StoredFrom(rs, i, k) ==
    IF i >= k THEN rs
    ELSE StoredFrom(PhysWriteU8(rs, ByteTranslation(i).val, WrittenBytes[i + 1]),
                    i + 1, k)

\* The last access was a write_u16, write_u32 or write_u64 that surfaced an
\* interrupt
MultiByteWriteFailed ==
    /\ MmuAccessed
    /\ last.kind \in {"write_u16", "write_u32", "write_u64"}
    /\ last.result.tag = "err"

MultiByteAccessFaulted ==
    /\ MmuAccessed
    /\ AccessWidth > 1
    /\ last.result.tag = "err"
    /\ last.result.int.kind = "PF"

\* C37: a read or a write of two, four or eight bytes at va that surfaces a
\* page fault surfaces the one of the first byte k whose translation fails,
\* with error code 0 and cr2 = va + k
C37_FaultAddressOfFailingByte ==
    MultiByteAccessFaulted
        => \E k \in {FailingByte} :
              /\ k < AccessWidth
              /\ last.result.int = [kind |-> "PF", error_code |-> 0,
                                    cr2 |-> ByteAddress(k), irq |-> 0]

\* A read_u64 at 8FFCh, whose byte 4 is the first of a page not present,
\* has surfaced a page fault with cr2 = 9000h
C37_FaultAtNextPage ==
    /\ MultiByteAccessFaulted
    /\ last.kind = "read_u64"
    /\ last.tables = "sparse"
    /\ last.va = FromInt(36860)
    /\ FailingByte = 4
    /\ last.result.int.cr2 = FromInt(36864)
    /\ last.result.int.cr2 # last.va

\* The byte at physical address a of the memory rs lies in no range
InNoRange(rs, a) ==
    \/ ToInt(a) = -1
    \/ \A k \in DOMAIN rs : ~(k[1] <= ToInt(a) /\ ToInt(a) < k[2])

\* The eight bytes of the root table's entry for va lie in no range
RootEntryUnmapped(va) ==
    \A i \in 0..7 :
        InNoRange(last.pre, WrappingAdd(Before.paging_table_address,
                                        FromInt(8 * Field(va, 39, 9) + i)))

\* 7FFF_FFFF_FFFF_F000h, the base an entry of all-ones names, plus the
\* offset of va in its page
AllOnesPage(va) == <<va[1], 240 + (va[2] % 16), 255, 255, 255, 255, 255, 127>>

\* Every byte of the last access is canonical and none is past the end of
\* the address space
WholeAccessCanonical ==
    \A i \in 0..(AccessWidth - 1) :
        /\ ~NotCanonical(ByteAddress(i))
        /\ AddC(last.va, FromInt(i)).ovf = FALSE

\* The bytes a read of the last access's width returns when each is FFh
AllOnesRead ==
    IF AccessWidth = 1 THEN 255 ELSE [i \in 1..AccessWidth |-> 255]

\* Each of the four entries of the walk of the last access reads as all-ones
WalkEntryAllOnes ==
    \A i \in 1..4 :
        WalkEntry(Before, last.va, i) = <<255, 255, 255, 255, 255, 255, 255, 255>>

\* C38: when the root table's entry for a canonical va lies in no range of
\* the physical memory, the walk reads all-ones at each level and
\* translates va to 7FFF_FFFF_FFFF_F000h plus the page offset; an access
\* then never surfaces a page fault, and a read whose bytes are all
\* canonical returns FFh for each byte (with no memory at all as well), a
\* write of such bytes succeeding and changing nothing
C38_UnmappedTablesArePresent ==
    (MmuAccessed /\ RootEntryUnmapped(last.va))
        => /\ ~NotCanonical(last.va)
                 => /\ last.at.tag = "ok"
                    /\ last.at.val = AllOnesPage(last.va)
                    /\ WalkEntryAllOnes
           /\ last.result.tag = "err" => last.result.int.kind # "PF"
           /\ (WholeAccessCanonical
                 /\ last.kind \in {"read_u8", "read_u16", "read_u32", "read_u64"})
                 => /\ last.result.tag = "ok"
                    /\ last.result.val = AllOnesRead
           /\ (WholeAccessCanonical
                 /\ last.kind \notin {"read_u8", "read_u16", "read_u32", "read_u64"})
                 => /\ last.result.tag = "ok"
                    /\ ranges = last.pre

\* With no physical memory at all, a read_u64 of FFFF_8000_0000_0000h has
\* returned FFFF_FFFF_FFFF_FFFFh
C38_ReadWithNoMemory ==
    /\ MmuAccessed
    /\ last.tables = "empty"
    /\ DOMAIN last.pre = {}
    /\ last.kind = "read_u64"
    /\ last.va = <<0, 0, 0, 0, 0, 128, 255, 255>>
    /\ last.result.tag = "ok"
    /\ last.result.val = <<255, 255, 255, 255, 255, 255, 255, 255>>
    /\ last.at.val = <<0, 240, 255, 255, 255, 255, 255, 127>>

----------------------------------------------------------------------------
(* Properties of the stack instructions *)

\* The steps of the program executed so far
Executed(n) == "history" \in DOMAIN last /\ Len(last.history) = n

\* The width in bytes of the stack instruction
StackWidth(instruction) ==
    IF instruction.op \in {"PushReg16", "PopReg16"} THEN 2 ELSE 8

\* A push and the pop of its width have both been executed with no
\* interrupt, the bytes of the stack slot being in RAM and the pop not
\* being one into rsp
PushedAndPopped ==
    /\ Executed(2)
    /\ status = "running"
    /\ last.history[1].raised.kind = "None"
    /\ last.history[2].raised.kind = "None"
    /\ last.history[2].instruction.operand0 # SP
    /\ AllInRam(Self, last.history[2].pre.registers[SP],
                StackWidth(last.history[1].instruction))

\* The low n bytes of the 64-bit word w
LowBytes(w, n) == SubSeq(w, 1, n)

\* C39: after PushReg64 r and PopReg64 r' with no fault, rsp is what it was
\* before the push and R[r'] is the value pushed; after PushReg16 r and
\* PopReg16 r', likewise for the low 16 bits of R[r']; the pop raises rsp by
\* the width the push lowered it by
C39_StackRoundTrip ==
    PushedAndPopped
        => \E push \in {last.history[1]}, pop \in {last.history[2]} :
           \E n \in {StackWidth(push.instruction)} :
              /\ registers[SP] = push.pre.registers[SP]
              /\ LowBytes(registers[pop.instruction.operand0], n)
                    = LowBytes(push.pre.registers[push.instruction.operand0], n)
              /\ pop.pre.registers[SP]
                    = WrappingSub(push.pre.registers[SP], FromInt(n))
              /\ registers[SP] = WrappingAdd(pop.pre.registers[SP], FromInt(n))

\* The last instruction executed raised an interrupt
RaisedInExecution ==
    /\ "history" \in DOMAIN last
    /\ last.history # <<>>
    /\ last.history[Len(last.history)].raised.kind # "None"

\* The step that raised it
RaisingStep == last.history[Len(last.history)]

\* The interrupt was entered at the first attempt, the frame being in RAM
EnteredAtOnce ==
    /\ status = "running"
    /\ Len(RaisingStep.attempts) = 1
    /\ AllInRam(Self, registers[SP], 32)

\* C40: an instruction whose execution raises an interrupt leaves the 16
\* general registers as they were at the top of the step, and the rsp
\* saved in the frame of the interrupt is the rsp of the top of the step;
\* so for a PushReg16 or a PushReg64 whose store faults
C40_RegistersKeptOnFault ==
    RaisedInExecution
        => /\ RaisingStep.at_raise.registers = RaisingStep.pre.registers
           /\ EnteredAtOnce
                 => MmuReadU64(Self, WrappingAdd(registers[SP], FromInt(24))).val
                       = RaisingStep.pre.registers[SP]

============================================================================
